---------------------------- MODULE Spec2Model ----------------------------
(***************************************************************************)
(* A model of src/src/edgeGraph.js: the EdgeGraph class that loads a node  *)
(* / edge document, infers a hierarchy level per node, places the nodes,   *)
(* fits the view and draws the graph on a canvas.                          *)
(*                                                                         *)
(* The file holds three revisions of the class.  The load pipeline below   *)
(* (Spec) is the first revision (lines 1-1393); the drag handlers of the   *)
(* second revision (lines 1668-1743) are modelled under SpecRev2.          *)
(*                                                                         *)
(* JavaScript values that are not numbers are kept apart from numbers by a *)
(* tag: a coordinate is Num(v), Undef, NullV or NaN.  Coordinates are      *)
(* integers (pixels); a quotient the code leaves fractional is truncated   *)
(* toward zero.  The view scale and translation are exact rationals        *)
(* <<numerator, denominator>>.                                             *)
(***************************************************************************)
EXTENDS Integers, Sequences, FiniteSets, TLC

VARIABLES
    pc,                 \* position inside init(), or "ready" / "crashed"
    data,               \* the document handed to the constructor
    container,          \* size of the container element <<width, height>>
    canvas,             \* this.canvas.width / height
    nodes,              \* this.nodes
    links,              \* this.links
    bidirectionalPairs, \* this.bidirectionalPairs
    transform,          \* this.transform
    errors,             \* what console.error has reported so far
    frame,              \* the draw calls of the last draw() pass
    refit,              \* the pending one-shot re-fit timer of fitViewToContent
    drag,               \* closure state of the second revision's setupDrag
    simulation,         \* this.simulation: its forces and its alpha target
    ui,                 \* this.dragging, draggedNode, selectedNode, infoBox
    wrap                \* a call of wrapText and of wrapText on one of its lines

vars == <<pc, data, container, canvas, nodes, links, bidirectionalPairs,
          transform, errors, frame, refit, drag, simulation, ui, wrap>>

-----------------------------------------------------------------------------
(* Bounds of the model.                                                    *)

MaxNodes == 3

MaxEdges == 3

\* The drag gestures of one behaviour.
MaxGestures == 2

\* The characters of a text handed to wrapText.
MaxTextLen == 5

\* The ticks of the simulation timer in one behaviour.
MaxTicks == 2

-----------------------------------------------------------------------------
(* JavaScript values.                                                      *)

Num(v) == [t |-> "num", v |-> v]

Undef == [t |-> "undefined", v |-> 0]

NullV == [t |-> "null", v |-> 0]

NaN == [t |-> "NaN", v |-> 0]

IsNum(a) == a.t = "num"

\* `a == null` / `a != null` of JavaScript: true of null and undefined only.
IsNullish(a) == a.t \in {"undefined", "null"}

\* A link end that Array.prototype.find could not resolve (undefined).
NoNode == 0

\* A link without an entry in the bidirectionalPairs map.
NoLink == 0

\* node.level === undefined
NoLevel == -1

Range(s) == {s[i] : i \in DOMAIN s}

Min2(a, b) == IF a <= b THEN a ELSE b

Max2(a, b) == IF a >= b THEN a ELSE b

Abs(a) == IF a < 0 THEN -a ELSE a

\* Quotient truncated toward zero.
Div(a, b) == IF a >= 0 THEN a \div b ELSE -((-a) \div b)

-----------------------------------------------------------------------------
(* The input documents.                                                    *)

TypeX == "X"

TypeY == "Y"

\* A type the color map below has no entry for.
TypeZ == "Z"

\* properties without a type field: properties.type is undefined.
NoType == "undefined"

Types == {TypeX, TypeY, TypeZ}

ExampleColors == (TypeX :> "#ff0000") @@ (TypeY :> "#00ff00")

InputNode(i, ty) == [id |-> i, type |-> ty]

InputEdge(s, t) ==
    [source_node_id |-> s, target_node_id |-> t, relationship_name |-> "LIKES"]

\* The types of the nodes 1..n when nothing else is said: X, Y, Z, X, ...
PositionalType(i) == <<TypeX, TypeY, TypeZ>>[((i - 1) % 3) + 1]

Document(nodeSeq, edgeSeq) ==
    [isNull |-> FALSE, hasNodes |-> TRUE, nodes |-> nodeSeq,
     hasEdges |-> TRUE, edges |-> edgeSeq,
     hasColors |-> TRUE, colors |-> ExampleColors]

SeqsUpTo(S, n) == UNION {[1..k -> S] : k \in 0..n}

NodesOf(n) == [i \in 1..n |-> InputNode(i, PositionalType(i))]

\* Every edge list of up to maxLen edges between the nodes 1..n.
ResolvedEdgeLists(n, maxLen) ==
    SeqsUpTo({InputEdge(s, t) : s \in 1..n, t \in 1..n}, maxLen)

\* Graphs of up to MaxNodes nodes with up to MaxEdges - 1 edges: single
\* nodes, self-loops, cycles with and without a root, several components.
GraphDocs ==
    {Document(NodesOf(in[1]), in[2]) :
        in \in UNION {{<<n, es>> : es \in ResolvedEdgeLists(n, MaxEdges - 1)} :
                         n \in 0..MaxNodes}}

\* Up to MaxEdges edges between up to MaxNodes - 1 nodes: several edges
\* between the same two nodes, in both directions.
MultiEdgeDocs ==
    {Document(NodesOf(in[1]), in[2]) :
        in \in UNION {{<<n, es>> : es \in ResolvedEdgeLists(n, MaxEdges)} :
                         n \in 0..(MaxNodes - 1)}}

InsertAt(seq, k, e) ==
    [i \in 1..(Len(seq) + 1) |->
        IF i < k THEN seq[i] ELSE IF i = k THEN e ELSE seq[i - 1]]

\* An edge list between the nodes 1..n with one more edge, before or after
\* the others, whose source or target id n + 1 names no node.
DanglingEdges(n) ==
    {InputEdge(s, t) : s \in {n + 1}, t \in 1..(n + 1)} \cup
    {InputEdge(s, t) : s \in 1..(n + 1), t \in {n + 1}}

DanglingDocs ==
    {Document(NodesOf(in[1]), InsertAt(in[2], in[3], in[4])) :
        in \in UNION {UNION {{<<n, es, k, e>> :
                                 k \in {1, Len(es) + 1}, e \in DanglingEdges(n)} :
                             es \in ResolvedEdgeLists(n, MaxEdges - 1)} :
                      n \in 0..(MaxNodes - 1)}}

\* Documents with every assignment of types (or of no type), with and
\* without a color map.
TypeDocs ==
    {[Document([i \in 1..in[1] |-> InputNode(i, in[2][i])], <<>>)
         EXCEPT !.hasColors = in[3]] :
        in \in UNION {{<<n, f, c>> :
            f \in [1..n -> Types \cup {NoType}], c \in BOOLEAN} : n \in 0..MaxNodes}}

\* null, and documents without nodes or without edges.
MalformedDocs ==
    {[Document(<<>>, <<>>) EXCEPT !.isNull = TRUE]} \cup
    {[Document(in[1], in[2]) EXCEPT !.hasNodes = in[3], !.hasEdges = in[4]] :
        in \in
            {<<<<>>, <<>>, FALSE, FALSE>>,
             <<<<>>, <<InputEdge(1, 2)>>, FALSE, TRUE>>,
             <<<<InputNode(1, TypeX), InputNode(2, TypeY)>>, <<>>, TRUE, FALSE>>}}

\* Relationship names of the README's example data and of getLinkDistance.
RelationNames == {"ACTED_IN", "WORKED_WITH", "LIKES"}

\* No edge between two nodes.
NoName == "undefined"

NamedEdge(s, t, name) == [InputEdge(s, t) EXCEPT !.relationship_name = name]

\* The pairs s < t of the nodes 1..n in the order (1,2), (1,3), ..., (2,3), ...
RECURSIVE PairsFrom(_, _, _)
PairsFrom(n, s, t) ==
    IF s >= n THEN <<>>
    ELSE IF t > n THEN PairsFrom(n, s + 1, s + 2)
    ELSE <<<<s, t>>>> \o PairsFrom(n, s, t + 1)

\* The edges a naming of the pairs gives, in the order of the pairs.
RECURSIVE NamedEdgesFrom(_, _, _)
NamedEdgesFrom(pairs, naming, k) ==
    IF k > Len(pairs) THEN <<>>
    ELSE (IF naming[k] = NoName THEN <<>>
          ELSE <<NamedEdge(pairs[k][1], pairs[k][2], naming[k])>>)
         \o NamedEdgesFrom(pairs, naming, k + 1)

NamedEdgeLists(n, maxLen) ==
    LET pairs == PairsFrom(n, 1, 2)
    IN  {NamedEdgesFrom(pairs, naming, 1) :
            naming \in {f \in [DOMAIN pairs -> RelationNames \cup {NoName}] :
                           Cardinality({k \in DOMAIN pairs : f[k] # NoName}) <= maxLen}}

\* Graphs of up to MaxNodes nodes, of one type or of the types X, Y, Z, with
\* up to MaxEdges - 1 named edges from a node to a later one.
RelationDocs ==
    {Document(in[1], in[2]) :
        in \in UNION {{<<ns, es>> :
                          ns \in {NodesOf(n), [i \in 1..n |-> InputNode(i, TypeX)]},
                          es \in NamedEdgeLists(n, MaxEdges - 1)} :
                       n \in 1..MaxNodes}}

\* A cycle 4 -> 1 -> 2 -> 3 -> 4 with the link 4 -> 1 twice, and a node
\* without links: the traversal starts at node 5 and reaches no other node.
CycleDocs ==
    {Document(NodesOf(5),
              <<InputEdge(4, 1), InputEdge(4, 1), InputEdge(1, 2),
                InputEdge(2, 3), InputEdge(3, 4)>>)}

\* The sizes container.getBoundingClientRect() may report.
LargeContainer == [width |-> 1200, height |-> 600]

SmallContainer == [width |-> 60, height |-> 60]

\* A phone-sized container, 375 wide.
MobileContainer == [width |-> 375, height |-> 667]

ContainerSizes == {LargeContainer, SmallContainer, MobileContainer}

\* The documents and container sizes a graph is constructed with.
IsInput(d, c) ==
    \/ d \in GraphDocs /\ c = LargeContainer
    \/ d \in MultiEdgeDocs /\ c = LargeContainer
    \/ d \in DanglingDocs /\ c = LargeContainer
    \/ d \in CycleDocs /\ c = LargeContainer
    \/ d \in TypeDocs /\ c \in ContainerSizes
    \/ d \in MalformedDocs /\ c \in ContainerSizes

-----------------------------------------------------------------------------
(* processData (lines 108-150).                                            *)

FallbackColor == "#999999"

\* data.colors[node.properties.type] with no fallback: an unmapped type
\* reads undefined.
NodeColorNoFallback(colors, ty) ==
    IF ty \in DOMAIN colors THEN colors[ty] ELSE "undefined"

\* data.colors[node.properties.type] || '#999999'
NodeColor(colors, ty) == IF ty \in DOMAIN colors THEN colors[ty] ELSE FallbackColor

\* One element of data.nodes.map(...): the node object of lines 116-123.
\* level, childCount, parentCount, fx, fy, vx and vy are absent until a
\* later step writes them.
MakeNode(n, colors) ==
    [id |-> n.id, type |-> n.type, color |-> NodeColor(colors, n.type),
     x |-> Undef, y |-> Undef, level |-> NoLevel,
     childCount |-> 0, parentCount |-> 0,
     fx |-> Undef, fy |-> Undef, vx |-> Undef, vy |-> Undef]

\* this.nodes.find(n => n.id === id): the first node with that id, as its
\* position in this.nodes, or NoNode.
FindNode(ns, id) ==
    IF \E i \in DOMAIN ns : ns[i].id = id
    THEN CHOOSE i \in DOMAIN ns :
            ns[i].id = id /\ \A k \in DOMAIN ns : ns[k].id = id => i <= k
    ELSE NoNode

\* One element of data.edges.map(...): the link object of lines 126-131.
MakeLink(ns, e) ==
    [source |-> FindNode(ns, e.source_node_id),
     target |-> FindNode(ns, e.target_node_id),
     relationship |-> e.relationship_name]

\* The test of line 140, evaluated left to right: "throw" when it reads .id
\* of an undefined link end, else whether link2 is the reverse of link1.
ReverseTest(ns, link1, link2) ==
    IF link1.source = NoNode \/ link2.target = NoNode THEN "throw"
    ELSE IF ns[link1.source].id # ns[link2.target].id THEN "no"
    ELSE IF link1.target = NoNode \/ link2.source = NoNode THEN "throw"
    ELSE IF ns[link1.target].id = ns[link2.source].id THEN "yes" ELSE "no"

RECURSIVE ScanPairsOneWay(_, _, _, _, _)
\* The scan with the second set() of line 142 left out: only link1 learns
\* its partner.
ScanPairsOneWay(ns, ls, i, j, partner) ==
    IF i > Len(ls) THEN [partner |-> partner, threw |-> FALSE]
    ELSE IF j > Len(ls) THEN ScanPairsOneWay(ns, ls, i + 1, i + 2, partner)
    ELSE LET test == ReverseTest(ns, ls[i], ls[j]) IN
         IF test = "throw" THEN [partner |-> partner, threw |-> TRUE]
         ELSE IF test = "yes"
              THEN ScanPairsOneWay(ns, ls, i + 1, i + 2, [partner EXCEPT ![i] = j])
              ELSE ScanPairsOneWay(ns, ls, i, j + 1, partner)

RECURSIVE ScanPairs(_, _, _, _, _)
\* The two loops of lines 136-146 from position (i, j) on, with the map
\* built so far: the final map, and whether the scan threw.
ScanPairs(ns, ls, i, j, partner) ==
    IF i > Len(ls) THEN [partner |-> partner, threw |-> FALSE]
    ELSE IF j > Len(ls) THEN ScanPairs(ns, ls, i + 1, i + 2, partner)
    ELSE LET test == ReverseTest(ns, ls[i], ls[j]) IN
         IF test = "throw" THEN [partner |-> partner, threw |-> TRUE]
         ELSE IF test = "yes"
              THEN ScanPairs(ns, ls, i + 1, i + 2,
                             [partner EXCEPT ![i] = j, ![j] = i])
              ELSE ScanPairs(ns, ls, i, j + 1, partner)

NoPairs == [defined |-> FALSE, partner |-> <<>>]

\* processData without the guard of lines 109-112 and without the try of
\* lines 114-149, as the second revision has it (lines 1473-1491): reading
\* the nodes, the edges or a color of a document that has none throws.
processDataUnguarded(d, ns0, ls0, bp0, errs0) ==
    IF d.isNull \/ ~d.hasNodes \/ ~d.hasEdges \/ (~d.hasColors /\ d.nodes # <<>>)
    THEN [nodes |-> ns0, links |-> ls0, pairs |-> bp0, errors |-> errs0,
          threw |-> TRUE]
    ELSE LET cols == IF d.hasColors THEN d.colors ELSE ExampleColors
             ns == [i \in DOMAIN d.nodes |-> MakeNode(d.nodes[i], cols)]
             ls == [k \in DOMAIN d.edges |-> MakeLink(ns, d.edges[k])]
             scan == ScanPairs(ns, ls, 1, 2, [k \in DOMAIN ls |-> NoLink])
         IN  [nodes |-> ns, links |-> ls,
              pairs |-> [defined |-> TRUE, partner |-> scan.partner],
              errors |-> errs0, threw |-> scan.threw]

\* processData as a function of the document and of the fields it may
\* leave untouched: the new nodes, links, pair map and error reports.
processData(d, ns0, ls0, bp0, errs0) ==
    IF d.isNull \/ ~d.hasNodes \/ ~d.hasEdges
    THEN [nodes |-> ns0, links |-> ls0, pairs |-> bp0,
          errors |-> Append(errs0, "Invalid data format"), threw |-> FALSE]
    ELSE IF ~d.hasColors /\ d.nodes # <<>>
    THEN \* data.colors[...] throws inside the try before this.nodes is set
         [nodes |-> ns0, links |-> ls0, pairs |-> bp0,
          errors |-> Append(errs0, "Error processing graph data"),
          threw |-> FALSE]
    ELSE LET cols == IF d.hasColors THEN d.colors ELSE ExampleColors
             ns == [i \in DOMAIN d.nodes |-> MakeNode(d.nodes[i], cols)]
             ls == [k \in DOMAIN d.edges |-> MakeLink(ns, d.edges[k])]
             scan == ScanPairs(ns, ls, 1, 2, [k \in DOMAIN ls |-> NoLink])
         IN  [nodes |-> ns, links |-> ls,
              pairs |-> [defined |-> TRUE, partner |-> scan.partner],
              errors |-> IF scan.threw
                         THEN Append(errs0, "Error processing graph data")
                         ELSE errs0,
              threw |-> FALSE]

\* getBidirectionalPair (lines 527-529): this.bidirectionalPairs.get(link).
getBidirectionalPair(bp, k) == bp.partner[k]

-----------------------------------------------------------------------------
(* computeNodeHierarchy (lines 860-960).                                   *)

\* The count of lines 872-883 with the two ends exchanged: a link adds a
\* parent to its source and a child to its target.
CountConnectionsSwapped(ns, ls) ==
    [i \in DOMAIN ns |->
        [ns[i] EXCEPT
            !.level = NoLevel,
            !.childCount = Cardinality({k \in DOMAIN ls :
                ls[k].target = i /\ ls[k].source # NoNode}),
            !.parentCount = Cardinality({k \in DOMAIN ls :
                ls[k].source = i /\ ls[k].target # NoNode})]]

\* Lines 863-883: the counters are reset, then every link with both ends
\* resolved adds one child to its source and one parent to its target.
CountConnections(ns, ls) ==
    [i \in DOMAIN ns |->
        [ns[i] EXCEPT
            !.level = NoLevel,
            !.childCount = Cardinality({k \in DOMAIN ls :
                ls[k].source = i /\ ls[k].target # NoNode}),
            !.parentCount = Cardinality({k \in DOMAIN ls :
                ls[k].target = i /\ ls[k].source # NoNode})]]

\* The positions in S as a sequence in the order of this.nodes (what
\* Array.prototype.filter keeps).
RECURSIVE InOrder(_)
InOrder(S) ==
    IF S = {} THEN <<>>
    ELSE LET m == CHOOSE a \in S : \A b \in S : a <= b
         IN  <<m>> \o InOrder(S \ {m})

\* Only the nodes without a parent, with no second choice.
RootNodesParentless(ns) == InOrder({i \in DOMAIN ns : ns[i].parentCount = 0})

\* Lines 886-892: the nodes without a parent, or when there are none the
\* nodes with the fewest parents.
RootNodes(ns) ==
    LET roots == InOrder({i \in DOMAIN ns : ns[i].parentCount = 0})
    IN  IF roots # <<>> \/ ns = <<>> THEN roots
        ELSE LET minParents ==
                     CHOOSE m \in {ns[i].parentCount : i \in DOMAIN ns} :
                         \A i \in DOMAIN ns : m <= ns[i].parentCount
             IN  InOrder({i \in DOMAIN ns : ns[i].parentCount = minParents})

\* Lines 895-897.
AssignRootLevel(ns, roots) ==
    [i \in DOMAIN ns |->
        IF i \in Range(roots) THEN [ns[i] EXCEPT !.level = 0] ELSE ns[i]]

\* node.level || 0
LevelOrZero(n) == IF n.level = NoLevel THEN 0 ELSE n.level

\* Lines 908-914: the targets of the links leaving the node, in link order;
\* a link whose target is unresolved contributes undefined (NoNode).
ChildNodes(ns, ls, current) ==
    LET RECURSIVE From(_)
        From(k) ==
            IF k > Len(ls) THEN <<>>
            ELSE (IF ls[k].source # NoNode /\ ns[ls[k].source].id = ns[current].id
                  THEN <<ls[k].target>> ELSE <<>>) \o From(k + 1)
    IN  From(1)

\* Lines 917-923 from child c on: st is [nodes, queue, visited].
RECURSIVE ProcessChildren(_, _, _, _)
ProcessChildren(st, children, c, current) ==
    IF c > Len(children) THEN st
    ELSE LET child == children[c] IN
         IF child # NoNode /\ st.nodes[child].id \notin st.visited
         THEN ProcessChildren(
                [nodes |-> [st.nodes EXCEPT
                               ![child].level = LevelOrZero(st.nodes[current]) + 1],
                 queue |-> Append(st.queue, child),
                 visited |-> st.visited \cup {st.nodes[child].id}],
                children, c + 1, current)
         ELSE ProcessChildren(st, children, c + 1, current)

\* Lines 903-924: the breadth-first traversal; st is [nodes, queue, visited].
RECURSIVE Traverse(_, _)
Traverse(st, ls) ==
    IF st.queue = <<>> THEN st.nodes
    ELSE LET current == Head(st.queue)
             rest == [st EXCEPT !.queue = Tail(st.queue)]
         IN  Traverse(ProcessChildren(rest, ChildNodes(st.nodes, ls, current),
                                      1, current), ls)

\* Lines 930-948: the leveled nodes joined to the node by a link, one entry
\* per link end that touches the node, in link order.
ConnectedNodes(ns, ls, i) ==
    LET Leveled(j) == j # NoNode /\ ns[j].level # NoLevel
        RECURSIVE From(_)
        From(k) ==
            IF k > Len(ls) THEN <<>>
            ELSE (IF ls[k].source # NoNode /\ ns[ls[k].source].id = ns[i].id
                     /\ Leveled(ls[k].target)
                  THEN <<ls[k].target>> ELSE <<>>)
                 \o
                 (IF ls[k].target # NoNode /\ ns[ls[k].target].id = ns[i].id
                     /\ Leveled(ls[k].source)
                  THEN <<ls[k].source>> ELSE <<>>)
                 \o From(k + 1)
    IN  From(1)

RECURSIVE SumLevels(_, _)
SumLevels(ns, js) ==
    IF js = <<>> THEN 0 ELSE LevelOrZero(ns[Head(js)]) + SumLevels(ns, Tail(js))

\* Lines 950-957: Math.floor(avgLevel) + 1, or 0 for a node with no leveled
\* neighbor.
FallbackLevel(ns, connected) ==
    IF connected # <<>>
    THEN (SumLevels(ns, connected) \div Len(connected)) + 1
    ELSE 0

\* Lines 927-959: the nodes the traversal left without a level, in the order
\* of this.nodes; each sees the levels given before it.
RECURSIVE AssignUnvisited(_, _, _)
AssignUnvisited(ns, ls, i) ==
    IF i > Len(ns) THEN ns
    ELSE IF ns[i].level = NoLevel
         THEN AssignUnvisited(
                [ns EXCEPT ![i].level = FallbackLevel(ns, ConnectedNodes(ns, ls, i))],
                ls, i + 1)
         ELSE AssignUnvisited(ns, ls, i + 1)

\* The analysis without the pass of lines 927-959 over the nodes the
\* traversal did not reach.
computeNodeHierarchyNoFallback(ns0, ls) ==
    LET counted == CountConnections(ns0, ls)
        roots == RootNodes(counted)
        start == [nodes |-> AssignRootLevel(counted, roots),
                  queue |-> roots,
                  visited |-> {counted[r].id : r \in Range(roots)}]
    IN  Traverse(start, ls)

computeNodeHierarchy(ns0, ls) ==
    LET counted == CountConnections(ns0, ls)
        roots == RootNodes(counted)
        start == [nodes |-> AssignRootLevel(counted, roots),
                  queue |-> roots,
                  visited |-> {counted[r].id : r \in Range(roots)}]
    IN  AssignUnvisited(Traverse(start, ls), ls, 1)

-----------------------------------------------------------------------------
(* organizeInitialPositions and resolveOverlaps (lines 738-857).           *)

\* config.nodeRadius
nodeRadius == 80

\* config.nodeSpacing
nodeSpacing == 250

\* The key a node is grouped under: its type, or 'default' without one.
GroupType(n) == IF n.type = NoType THEN "default" ELSE n.type

\* Math.max(...this.nodes.map(n => n.level || 0)) of a non-empty node list.
MaxLevel(ns) ==
    CHOOSE m \in {LevelOrZero(ns[i]) : i \in DOMAIN ns} :
        \A i \in DOMAIN ns : LevelOrZero(ns[i]) <= m

\* levelGroups[level][type]: the positions of the nodes of one level and
\* type, in the order of this.nodes.
LevelTypeGroup(ns, level, ty) ==
    InOrder({i \in DOMAIN ns :
                LevelOrZero(ns[i]) = level /\ GroupType(ns[i]) = ty})

\* Object.keys(levelGroups[level]): the types of a level in the order in
\* which their first node stands in this.nodes.
RECURSIVE TypeKeysFrom(_, _, _, _)
TypeKeysFrom(ns, level, i, keys) ==
    IF i > Len(ns) THEN keys
    ELSE IF LevelOrZero(ns[i]) = level /\ GroupType(ns[i]) \notin Range(keys)
         THEN TypeKeysFrom(ns, level, i + 1, Append(keys, GroupType(ns[i])))
         ELSE TypeKeysFrom(ns, level, i + 1, keys)

TypeKeys(ns, level) == TypeKeysFrom(ns, level, 1, <<>>)

\* The position of an element in a sequence that holds it, counted from 0.
IndexOf(seq, e) == (CHOOSE k \in DOMAIN seq : seq[k] = e) - 1

\* Math.ceil(Math.sqrt(nodeCount * 1.5))
GridRowSize(nodeCount) ==
    CHOOSE r \in 0..(nodeCount + 1) :
        /\ 2 * r * r >= 3 * nodeCount
        /\ \A q \in 0..(nodeCount + 1) : 2 * q * q >= 3 * nodeCount => r <= q

\* Lines 766-811 for one node: its x and y on a canvas of width w, height h.
PlaceNode(ns, i, w, h) ==
    LET level == LevelOrZero(ns[i])
        maxLevel == Max2(1, MaxLevel(ns))
        yPosition == Div(h * maxLevel + 8 * level * h, 10 * maxLevel)
        typeKeys == TypeKeys(ns, level)
        typeCount == Len(typeKeys)
        typeIndex == IndexOf(typeKeys, GroupType(ns[i]))
        group == LevelTypeGroup(ns, level, GroupType(ns[i]))
        nodeCount == Len(group)
        idx == IndexOf(group, i)
        xCenter == Div(w * (typeIndex + 1), typeCount + 1)
        spacing == Max2(nodeSpacing, Div(w, (typeCount + 1) * (nodeCount + 1)))
        rowSize == GridRowSize(nodeCount)
        xOffset == IF nodeCount > 7
                   THEN Div((2 * (idx % rowSize) - rowSize) * spacing, 2)
                   ELSE Div((2 * idx - (nodeCount - 1)) * spacing, 2)
        y == IF nodeCount > 7 THEN yPosition + (idx \div rowSize) * spacing
             ELSE yPosition
        x0 == xCenter + xOffset
        x == IF ns[i].childCount > 5 \/ ns[i].parentCount > 5
             THEN Max2(Div(3 * w, 10), Min2(Div(7 * w, 10), x0))
             ELSE x0
    IN  [ns[i] EXCEPT !.x = Num(x), !.y = Num(y)]

PlaceNodes(ns, w, h) == [i \in DOMAIN ns |-> PlaceNode(ns, i, w, h)]

\* Math.sqrt of a sum of squares below (3 * nodeRadius)^2, truncated.
ISqrt(n) ==
    CHOOSE r \in 0..(3 * nodeRadius) : r * r <= n /\ n < (r + 1) * (r + 1)

\* Lines 832-851 for the pair (a, b): the nodes after the push, and whether
\* the pair was closer than 3 * nodeRadius.  A coordinate that is NaN makes
\* the distance NaN and the test false; two nodes on one point make the
\* direction 0 / 0 = NaN, and the push leaves both nodes at NaN.
PushApart(ns, a, b) ==
    LET A == ns[a]
        B == ns[b]
        numeric == IsNum(A.x) /\ IsNum(A.y) /\ IsNum(B.x) /\ IsNum(B.y)
        dx == B.x.v - A.x.v
        dy == B.y.v - A.y.v
        minDist == 3 * nodeRadius
        close == numeric /\ dx * dx + dy * dy < minDist * minDist
        distance == ISqrt(dx * dx + dy * dy)
        overlap == minDist - distance
        tenths == IF A.level = B.level THEN 6 ELSE 5
        pushX == Div(dx * overlap * tenths, distance * 10)
        pushY == Div(dy * overlap * tenths, distance * 10)
    IN  IF ~close THEN [nodes |-> ns, moved |-> FALSE]
        ELSE IF dx = 0 /\ dy = 0
        THEN [nodes |-> [ns EXCEPT ![a].x = NaN, ![a].y = NaN,
                                   ![b].x = NaN, ![b].y = NaN],
              moved |-> TRUE]
        ELSE [nodes |-> [ns EXCEPT ![a].x = Num(A.x.v - pushX),
                                   ![a].y = Num(A.y.v - pushY),
                                   ![b].x = Num(B.x.v + pushX),
                                   ![b].y = Num(B.y.v + pushY)],
              moved |-> TRUE]

\* One iteration of the loop of line 823, from the pair (i, j) on.
RECURSIVE OverlapPass(_, _, _, _)
OverlapPass(ns, i, j, moved) ==
    IF i > Len(ns) THEN [nodes |-> ns, moved |-> moved]
    ELSE IF j > Len(ns) THEN OverlapPass(ns, i + 1, i + 2, moved)
    ELSE LET r == PushApart(ns, i, j)
         IN  OverlapPass(r.nodes, i, j + 1, moved \/ r.moved)

\* resolveOverlaps: up to `iterations` passes, stopping after a pass that
\* moved nothing.
RECURSIVE ResolveFrom(_, _)
ResolveFrom(ns, iterations) ==
    IF iterations = 0 THEN ns
    ELSE LET r == OverlapPass(ns, 1, 2, FALSE)
         IN  IF r.moved THEN ResolveFrom(r.nodes, iterations - 1) ELSE r.nodes

resolveOverlaps(ns) == ResolveFrom(ns, 5)

organizeInitialPositions(ns, ls, w, h) ==
    LET leveled == computeNodeHierarchy(ns, ls)
    IN  resolveOverlaps(PlaceNodes(leveled, w, h))

-----------------------------------------------------------------------------
(* Exact rationals for the view transform: [t, n, d] with d > 0, in lowest *)
(* terms; t is "NaN" for a value computed from NaN.                        *)

RECURSIVE Gcd(_, _)
Gcd(a, b) == IF b = 0 THEN a ELSE Gcd(b, a % b)

Rat(n, d) ==
    LET g == Gcd(Abs(n), Abs(d))
        sign == IF d < 0 THEN -1 ELSE 1
    IN  [t |-> "num", n |-> sign * (n \div g), d |-> sign * (d \div g)]

RatNaN == [t |-> "NaN", n |-> 0, d |-> 1]

RatLess(a, b) == a.t = "num" /\ b.t = "num" /\ a.n * b.d < b.n * a.d

RatLeq(a, b) == a.t = "num" /\ b.t = "num" /\ a.n * b.d <= b.n * a.d

\* Math.min of two values: NaN when either is NaN.
RatMin(a, b) ==
    IF a.t = "NaN" \/ b.t = "NaN" THEN RatNaN
    ELSE IF RatLeq(a, b) THEN a ELSE b

RatSub(a, b) ==
    IF a.t = "NaN" \/ b.t = "NaN" THEN RatNaN
    ELSE Rat(a.n * b.d - b.n * a.d, a.d * b.d)

RatMul(a, b) ==
    IF a.t = "NaN" \/ b.t = "NaN" THEN RatNaN
    ELSE Rat(a.n * b.n, a.d * b.d)

RatAdd(a, b) == RatSub(a, RatSub(Rat(0, 1), b))

\* a / b; 0 / 0 is NaN, and no other division by 0 occurs.
RatDiv(a, b) ==
    IF a.t = "NaN" \/ b.t = "NaN" \/ b.n = 0 THEN RatNaN
    ELSE Rat(a.n * b.d, a.d * b.n)

-----------------------------------------------------------------------------
\* The image k * c + t of the simulation-space coordinate c.
Apply(k, t, c) == RatSub(RatMul(k, c), RatSub(Rat(0, 1), t))

\* d3.zoomIdentity
zoomIdentity == [k |-> Rat(1, 1), x |-> Rat(0, 1), y |-> Rat(0, 1)]

\* this.minZoom and this.maxZoom (lines 29-30): 0.05 and 5.
minZoom == Rat(5, 100)

maxZoom == Rat(5, 1)

-----------------------------------------------------------------------------
(* fitViewToContent (lines 581-658).                                       *)

\* The nodes the loop of lines 590-598 does not skip.
PlacedNodes(ns) == {i \in DOMAIN ns : ~IsNullish(ns[i].x) /\ ~IsNullish(ns[i].y)}

SetMin(S) == CHOOSE m \in S : \A e \in S : m <= e

SetMax(S) == CHOOSE m \in S : \A e \in S : e <= m

\* Lines 588-639: the transform computed for the node positions and the
\* canvas size.  Math.min and Math.max give NaN as soon as one coordinate is
\* NaN; without a placed node the bounds stay at +/-Infinity, the width is
\* -Infinity, the scale -0 and the center NaN.
FitTransform(ns, w, h) ==
    LET placed == PlacedNodes(ns)
        anyNaN == \E i \in placed : ~IsNum(ns[i].x) \/ ~IsNum(ns[i].y)
        xs == {ns[i].x.v : i \in placed}
        ys == {ns[i].y.v : i \in placed}
        minX == SetMin(xs) - nodeRadius * 8
        maxX == SetMax(xs) + nodeRadius * 8
        minY == SetMin(ys) - nodeRadius * 8
        maxY == SetMax(ys) + nodeRadius * 8
        graphWidth == maxX - minX
        graphHeight == maxY - minY
        fitScaleWidth == Rat(w * 85, 100 * graphWidth)
        fitScaleHeight == Rat(h * 85, 100 * graphHeight)
        scale == RatMin(Rat(15, 100), RatMin(fitScaleWidth, fitScaleHeight))
        tx == RatSub(Rat(w, 2), RatMul(Rat(minX + maxX, 2), scale))
        ty == RatSub(Rat(h, 2), RatMul(Rat(minY + maxY, 2), scale))
    IN  IF anyNaN THEN [k |-> RatNaN, x |-> RatNaN, y |-> RatNaN]
        ELSE IF placed = {} THEN [k |-> Rat(0, 1), x |-> RatNaN, y |-> RatNaN]
        ELSE [k |-> scale, x |-> tx, y |-> ty]

NoRefit == [pending |-> FALSE, transform |-> zoomIdentity]

-----------------------------------------------------------------------------
(* draw, drawLinks and drawLink (lines 152-312): the relationship labels   *)
(* one draw pass writes, in drawing order.  An entry says which link's     *)
(* drawLink call wrote it, whose label it is, and on which side.           *)

\* Lines 186-195: both ends resolved and placed, and not on one point.  A
\* NaN coordinate makes the length NaN, which is not === 0.
LinkDrawable(ns, l) ==
    /\ l.source # NoNode /\ l.target # NoNode
    /\ ~IsNullish(ns[l.source].x) /\ ~IsNullish(ns[l.source].y)
    /\ ~IsNullish(ns[l.target].x) /\ ~IsNullish(ns[l.target].y)
    /\ ~(/\ IsNum(ns[l.source].x) /\ IsNum(ns[l.source].y)
         /\ IsNum(ns[l.target].x) /\ IsNum(ns[l.target].y)
         /\ ns[l.source].x.v = ns[l.target].x.v
         /\ ns[l.source].y.v = ns[l.target].y.v)

drawLink(ns, ls, bp, k) ==
    LET l == ls[k]
        pair == getBidirectionalPair(bp, k)
    IN  IF ~LinkDrawable(ns, l) THEN <<>>
        ELSE IF pair # NoLink /\ ns[l.source].id > ns[l.target].id THEN <<>>
        ELSE <<[by |-> k, label |-> k, side |-> "forward"]>> \o
             (IF pair # NoLink
              THEN <<[by |-> k, label |-> pair, side |-> "reverse"]>>
              ELSE <<>>)

RECURSIVE DrawLinksFrom(_, _, _, _)
DrawLinksFrom(ns, ls, bp, k) ==
    IF k > Len(ls) THEN <<>>
    ELSE drawLink(ns, ls, bp, k) \o DrawLinksFrom(ns, ls, bp, k + 1)

drawLinks(ns, ls, bp) == DrawLinksFrom(ns, ls, bp, 1)

-----------------------------------------------------------------------------
(* The first revision: the constructor and init() (lines 2-97), step by    *)
(* step.                                                                   *)

\* this.simulation is null (line 25): no force and no alpha target yet.
\* Radii are in pixels, strengths and the alpha target in hundredths, alpha
\* in thousandths.
NoSimulation ==
    [running |-> FALSE, collideRadius |-> 0, collideStrength |-> 0,
     alphaTarget |-> 0, alpha |-> 0, ticks |-> 0,
     distances |-> <<>>, centers |-> <<>>, clusters |-> <<>>]

\* collide.strength() read before handleDragStart has stored one.
NoStrength == -1

\* Lines 31-41: nothing is dragged or selected and the info box is hidden;
\* draggedNode and originalCollideStrength are not set yet.
NoInteraction ==
    [dragging |-> FALSE, draggedNode |-> NoNode, selectedNode |-> NoNode,
     infoBoxVisible |-> FALSE, infoBoxX |-> [t |-> "num", n |-> 0, d |-> 1],
     infoBoxY |-> [t |-> "num", n |-> 0, d |-> 1],
     originalCollideStrength |-> NoStrength]

\* wrapText has not been called.
NoWrap == [step |-> "new", text |-> <<>>, maxWidth |-> 0, lines |-> <<>>,
           line |-> 0, again |-> <<>>]

\* No drag gesture has run: draggedNode and dragStartPosition are null.
\* The other fields record, for the properties, the pointer offset of the
\* gesture, whether a drag move has run, the pinned position the last move
\* wrote, the node the last gesture released, and whether the integrator
\* has ticked since, the number of gestures so far, whether a gesture is
\* under way, and the event.subject of the last gesture.
NoDrag ==
    [draggedNode |-> NoNode, dragStartPosition |-> <<0, 0>>, offset |-> <<0, 0>>,
     moved |-> FALSE, pointer |-> <<0, 0>>, released |-> NoNode, ticked |-> FALSE,
     gestures |-> 0, active |-> FALSE, subject |-> NoNode,
     panning |-> FALSE, zoomed |-> FALSE]

\* The state the constructor sets before it calls init() (lines 25-41); a
\* canvas element starts 300 by 150.
Constructed ==
    /\ pc = "new"
    /\ canvas = [width |-> 300, height |-> 150]
    /\ nodes = <<>>
    /\ links = <<>>
    /\ bidirectionalPairs = NoPairs
    /\ transform = zoomIdentity
    /\ errors = <<>>
    /\ frame = <<>>
    /\ refit = NoRefit
    /\ drag = NoDrag
    /\ simulation = NoSimulation
    /\ ui = NoInteraction
    /\ wrap = NoWrap

Init == IsInput(data, container) /\ Constructed

\* draw() on the current graph.
draw(ns) == drawLinks(ns, links, bidirectionalPairs)

\* resizeCanvas (lines 99-106), the first call of init().
ResizeCanvas ==
    /\ pc = "new"
    /\ canvas' = container
    /\ frame' = draw(nodes)
    /\ pc' = "resized"
    /\ UNCHANGED <<simulation, ui, wrap, data, container, nodes, links, bidirectionalPairs,
                   transform, errors, refit, drag>>

\* this.processData(this.data) (line 52).  An exception that leaves
\* processData leaves init() and the constructor.
ProcessData ==
    /\ pc = "resized"
    /\ LET r == processData(data, nodes, links, bidirectionalPairs, errors)
       IN  /\ nodes' = r.nodes
           /\ links' = r.links
           /\ bidirectionalPairs' = r.pairs
           /\ errors' = r.errors
           /\ pc' = IF r.threw THEN "crashed" ELSE "processed"
    /\ UNCHANGED <<simulation, ui, wrap, data, container, canvas, transform, frame, refit, drag>>

\* this.organizeInitialPositions() (line 55).
OrganizeInitialPositions ==
    /\ pc = "processed"
    /\ nodes' = organizeInitialPositions(nodes, links, canvas.width, canvas.height)
    /\ pc' = "organized"
    /\ UNCHANGED <<simulation, ui, wrap, data, container, canvas, links, bidirectionalPairs,
                   transform, errors, frame, refit, drag>>

\* this.setupZoom() (lines 551-579): zoom.transform with the identity runs
\* the zoom handler, which stores the transform and draws.
SetupZoom ==
    /\ pc = "organized"
    /\ transform' = zoomIdentity
    /\ frame' = draw(nodes)
    /\ pc' = "zoomSetup"
    /\ UNCHANGED <<simulation, ui, wrap, data, container, canvas, nodes, links, bidirectionalPairs,
                   errors, refit, drag>>

\* this.fitViewToContent() (line 61): nothing on an empty graph; else the
\* transform is stored, the graph drawn and the re-fit timer armed.
FitViewToContent ==
    /\ pc = "zoomSetup"
    /\ IF nodes = <<>>
       THEN UNCHANGED <<transform, frame, refit>>
       ELSE LET t == FitTransform(nodes, canvas.width, canvas.height)
            IN  /\ transform' = t
                /\ frame' = draw(nodes)
                /\ refit' = [pending |-> TRUE, transform |-> t]
    /\ pc' = "fitted"
    /\ UNCHANGED <<simulation, ui, wrap, data, container, canvas, nodes, links, bidirectionalPairs,
                   errors, drag>>

-----------------------------------------------------------------------------
(* The forces init() registers (lines 64-90).  d3's own link, charge,      *)
(* collide and center forces are library code; of them the model keeps the *)
(* parameters this file sets.                                              *)

\* link[name] of an object: undefined when the object has no such field.
ReadField(obj, name) == IF name \in DOMAIN obj THEN obj[name] ELSE NoName

\* A string in a condition: undefined and '' are false.
Truthy(str) == str # NoName /\ str # ""

\* Lines 1182-1218 for a link whose ends are nodes, with the relationship
\* name read from the given field of the link.
LinkDistanceBy(ns, link, field) ==
    LET sourceType == ns[link.source].type
        targetType == ns[link.target].type
        sourceLvl == LevelOrZero(ns[link.source])
        targetLvl == LevelOrZero(ns[link.target])
        name == ReadField(link, field)
        base == 500
        typed == IF Truthy(sourceType) /\ Truthy(targetType)
                    /\ sourceType # targetType
                 THEN base + 150 ELSE base
        leveled == IF sourceLvl # targetLvl
                   THEN typed + Abs(sourceLvl - targetLvl) * 200 ELSE typed
        primary == IF Truthy(name) /\ name \in {"ACTED_IN", "DIRECTED", "PART_OF"}
                   THEN leveled - 100 ELSE leveled
    IN  IF Truthy(name) /\ name \in {"WORKED_WITH", "FREQUENT_COLLABORATOR"}
        THEN primary + 150 ELSE primary

\* The distance with the name read from the field processData writes.
getLinkDistanceOfRelationship(ns, link) == LinkDistanceBy(ns, link, "relationship")

\* getLinkDistance (lines 1182-1218): the name is read from
\* link.relationship_name.
getLinkDistance(ns, link) == LinkDistanceBy(ns, link, "relationship_name")

\* The levels that have a node, i.e. Object.keys(nodesByLevelAndType).
LevelKeys(ns) == {LevelOrZero(ns[i]) : i \in DOMAIN ns}

\* The place of a type among the types of its level after the sort of
\* lines 996-997: larger groups first, equal groups in their key order.
SortedTypeIndex(ns, level, ty) ==
    LET keys == TypeKeys(ns, level)
        size(t) == Len(LevelTypeGroup(ns, level, t))
        at == IndexOf(keys, ty) + 1
    IN  Cardinality({k \in DOMAIN keys :
            \/ size(keys[k]) > size(ty)
            \/ size(keys[k]) = size(ty) /\ k < at})

\* Lines 982-1010: the center of every (level, type) bucket for a canvas
\* of w by h, in whole pixels.
TypeClusterCenters(ns, w, h) ==
    IF ns = <<>> THEN <<>>
    ELSE LET maxLevel == Max2(1, MaxLevel(ns))
             keys == UNION {{<<level, ty>> : ty \in Range(TypeKeys(ns, level))} :
                               level \in LevelKeys(ns)}
         IN  [key \in keys |->
                LET typeCount == Len(TypeKeys(ns, key[1]))
                    typeIndex == SortedTypeIndex(ns, key[1], key[2])
                IN  <<Div(3 * w * (typeIndex + 1), 2 * (typeCount + 1)),
                      Div(15 * h * maxLevel + 120 * h * key[1], 100 * maxLevel)>>]

\* (a || 0) of a velocity.
OrZero(v) == IF IsNum(v) THEN v.v ELSE 0

\* The force function of lines 1013-1034 for alpha in thousandths: a node
\* whose fx or fy is anything but null is skipped.
typeClusterForce(ns, centers, alpha) ==
    [i \in DOMAIN ns |->
        LET n == ns[i]
            key == <<LevelOrZero(n), GroupType(n)>>
        IN  IF key \notin DOMAIN centers THEN n
            ELSE IF n.fx # NullV \/ n.fy # NullV THEN n
            ELSE IF ~IsNum(n.x) \/ ~IsNum(n.y)
                 THEN [n EXCEPT !.vx = NaN, !.vy = NaN]
            ELSE [n EXCEPT
                    !.vx = Num(OrZero(n.vx)
                               + Div((centers[key][1] - n.x.v) * 2 * alpha, 10000)),
                    !.vy = Num(OrZero(n.vy)
                               + Div((centers[key][2] - n.y.v) * 4 * alpha, 10000))]]

\* link.relationship_name || 'unknown' (line 1045) of a link made by
\* processData.
RelType(link) ==
    LET name == ReadField(link, "relationship_name")
    IN  IF Truthy(name) THEN name ELSE "unknown"

\* relationshipMap.get(i).get(relType) (lines 1040-1066): the nodes joined
\* to node i by a link of that relationship type, in either direction.
RelTargets(ls, i, relType) ==
    {j \in UNION {{ls[k].source, ls[k].target} : k \in DOMAIN ls} :
        \E k \in DOMAIN ls :
            /\ RelType(ls[k]) = relType
            /\ \/ ls[k].source = i /\ ls[k].target = j
               \/ ls[k].target = i /\ ls[k].source = j}

\* The relationship types of node i in the order their entries were made.
RECURSIVE RelKeysFrom(_, _, _, _)
RelKeysFrom(ls, i, k, keys) ==
    IF k > Len(ls) THEN keys
    ELSE IF (ls[k].source = i \/ ls[k].target = i)
            /\ RelType(ls[k]) \notin Range(keys)
         THEN RelKeysFrom(ls, i, k + 1, Append(keys, RelType(ls[k])))
         ELSE RelKeysFrom(ls, i, k + 1, keys)

\* getPrimaryRelationship (lines 1077-1092): the first relationship type
\* with the most targets, or null.
NoRel == "null"

getPrimaryRelationship(ls, i) ==
    LET keys == RelKeysFrom(ls, i, 1, <<>>)
        count(k) == Cardinality(RelTargets(ls, i, keys[k]))
    IN  IF keys = <<>> THEN NoRel
        ELSE keys[CHOOSE k \in DOMAIN keys :
                    \A m \in DOMAIN keys :
                        count(m) < count(k) \/ (count(m) = count(k) /\ k <= m)]

\* The loop of lines 1103-1120: the cluster grown from the nodes in it.
RECURSIVE GrowCluster(_, _, _)
GrowCluster(ls, cluster, primaryRel) ==
    LET more == {j \in UNION {RelTargets(ls, i, primaryRel) : i \in cluster} :
                    j \notin cluster /\ getPrimaryRelationship(ls, j) = primaryRel}
    IN  IF more = {} THEN cluster
        ELSE GrowCluster(ls, cluster \cup more, primaryRel)

\* Lines 1095-1129 from node i on: relationshipClusters as the cluster
\* number of every node, 0 for a node in no cluster.
RECURSIVE ClustersFrom(_, _, _, _, _)
ClustersFrom(ns, ls, i, clusters, clusterIndex) ==
    IF i > Len(ns) THEN clusters
    ELSE LET primaryRel == getPrimaryRelationship(ls, i)
             cluster == GrowCluster(ls, {i}, primaryRel)
         IN  IF clusters[i] # 0 \/ primaryRel = NoRel \/ Cardinality(cluster) <= 1
             THEN ClustersFrom(ns, ls, i + 1, clusters, clusterIndex)
             ELSE ClustersFrom(ns, ls, i + 1,
                      [j \in DOMAIN ns |->
                          IF j \in cluster THEN clusterIndex + 1 ELSE clusters[j]],
                      clusterIndex + 1)

RelationshipClusters(ns, ls) ==
    ClustersFrom(ns, ls, 1, [i \in DOMAIN ns |-> 0], 0)

RECURSIVE SumOver(_, _)
SumOver(f, S) ==
    IF S = {} THEN 0
    ELSE LET e == CHOOSE e \in S : TRUE IN f[e] + SumOver(f, S \ {e})

\* The force function of lines 1133-1178 for alpha in thousandths: the
\* members of a cluster are drawn to the mean position of its members
\* with a position other than 0.
relationshipForce(ns, clusters, alpha) ==
    [i \in DOMAIN ns |->
        LET n == ns[i]
            placed == {j \in DOMAIN ns :
                         /\ clusters[j] = clusters[i]
                         /\ IsNum(ns[j].x) /\ ns[j].x.v # 0
                         /\ IsNum(ns[j].y) /\ ns[j].y.v # 0}
            cx == Div(SumOver([j \in placed |-> ns[j].x.v], placed), Cardinality(placed))
            cy == Div(SumOver([j \in placed |-> ns[j].y.v], placed), Cardinality(placed))
        IN  IF clusters[i] = 0 \/ n.fx # NullV \/ n.fy # NullV \/ placed = {} THEN n
            ELSE IF ~IsNum(n.x) \/ ~IsNum(n.y)
                 THEN [n EXCEPT !.vx = NaN, !.vy = NaN]
            ELSE [n EXCEPT
                    !.vx = Num(OrZero(n.vx) + Div((cx - n.x.v) * 2 * alpha, 10000)),
                    !.vy = Num(OrZero(n.vy) + Div((cy - n.y.v) * 2 * alpha, 10000))]]

\* The simulation of lines 64-90 for the nodes and links at hand: the
\* link distances, the collide force with radius 2.5 * nodeRadius and
\* strength 0.95, the bucket centers and the relationship clusters, all
\* computed once; alpha starts at 1 and the alpha target at 0.
forceSimulation(ns, ls, w, h) ==
    [running |-> TRUE,
     collideRadius |-> Div(nodeRadius * 25, 10), collideStrength |-> 95,
     alphaTarget |-> 0, alpha |-> 1000, ticks |-> 0,
     distances |-> [k \in DOMAIN ls |-> getLinkDistance(ns, ls[k])],
     centers |-> TypeClusterCenters(ns, w, h),
     clusters |-> RelationshipClusters(ns, ls)]

\* The position d3.forceSimulation gives node number i (from 0) when its x
\* or y is NaN: 10 * sqrt(0.5 + i) at angle i * pi * (3 - sqrt(5)).
Phyllotaxis(i) ==
    IF i < 8
    THEN <<<<7, 0>>, <<-9, 8>>, <<1, -15>>, <<11, 14>>,
           <<-20, -3>>, <<19, -12>>, <<-6, 24>>, <<-12, -24>>>>[i + 1]
    ELSE <<0, 0>>

\* d3.forceSimulation(this.nodes) (line 64): every node gets a velocity, and
\* a position when it has none.
InitializeNodes(ns) ==
    [i \in DOMAIN ns |->
        LET n == ns[i]
            lost == ~IsNum(n.x) \/ ~IsNum(n.y)
            still == ~IsNum(n.vx) \/ ~IsNum(n.vy)
        IN  [n EXCEPT
                !.x = IF lost THEN Num(Phyllotaxis(i - 1)[1]) ELSE n.x,
                !.y = IF lost THEN Num(Phyllotaxis(i - 1)[2]) ELSE n.y,
                !.vx = IF still THEN Num(0) ELSE n.vx,
                !.vy = IF still THEN Num(0) ELSE n.vy]]

\* Lines 64-90: the simulation and its forces.  d3.forceLink resolves both
\* ends of every link when the force is added and throws on an end that is
\* no node; the exception leaves init() and the constructor.
SetupSimulation ==
    /\ pc = "fitted"
    /\ nodes' = InitializeNodes(nodes)
    /\ IF \E k \in DOMAIN links :
             links[k].source = NoNode \/ links[k].target = NoNode
       THEN pc' = "crashed" /\ UNCHANGED simulation
       ELSE /\ pc' = "simulating"
            /\ simulation' = forceSimulation(nodes', links, canvas.width, canvas.height)
    /\ UNCHANGED <<ui, wrap, data, container, canvas, links, bidirectionalPairs,
                   transform, errors, frame, refit, drag>>

\* this.setupDrag() and this.setupNodeSelection() (lines 93-96).
SetupInteractions ==
    /\ pc = "simulating"
    /\ pc' = "ready"
    /\ UNCHANGED <<simulation, ui, wrap, data, container, canvas, nodes, links, bidirectionalPairs,
                   transform, errors, frame, refit, drag>>

\* One step of the integrator on a node (d3-force): a pinned node is moved
\* to its pinned position and loses its velocity, a free node moves by its
\* velocity.  The velocity changes the forces make are not part of it.
Integrate(n) ==
    LET free(f, p, v) == IF IsNullish(f)
                         THEN (IF IsNum(p) /\ IsNum(v) THEN Num(p.v + v.v) ELSE p)
                         ELSE f
    IN  [n EXCEPT !.x = free(n.fx, n.x, n.vx),
                  !.y = free(n.fy, n.y, n.vy),
                  !.vx = IF IsNullish(n.fx) THEN n.vx ELSE Num(0),
                  !.vy = IF IsNullish(n.fy) THEN n.vy ELSE Num(0)]

Next ==
    \/ ResizeCanvas
    \/ ProcessData
    \/ OrganizeInitialPositions
    \/ SetupZoom
    \/ FitViewToContent
    \/ SetupSimulation
    \/ SetupInteractions

Spec == Init /\ [][Next]_vars

-----------------------------------------------------------------------------
(* The simulation timer and the window's resize event after init().        *)

\* node.vx *= 1 - velocityDecay with the velocityDecay(0.5) of line 87.
Decay(n) ==
    [n EXCEPT !.vx = IF IsNum(n.vx) THEN Num(Div(n.vx.v, 2)) ELSE n.vx,
              !.vy = IF IsNum(n.vy) THEN Num(Div(n.vy.v, 2)) ELSE n.vy]

\* alpha += (alphaTarget - alpha) * alphaDecay with the alphaDecay(0.01) of
\* line 89; alpha in thousandths, the target in hundredths.
NextAlpha(sim) == sim.alpha + Div(sim.alphaTarget * 10 - sim.alpha, 100)

\* The velocities after the two forces of this file have run, in the order
\* of their registration (lines 83-85).
ApplyForces(ns, sim, alpha) ==
    relationshipForce(typeClusterForce(ns, sim.centers, alpha), sim.clusters, alpha)

\* One tick of the simulation: alpha decays, the forces change the
\* velocities, the integrator moves the nodes, and the tick listener of
\* line 90 draws.
Tick ==
    /\ pc = "ready"
    /\ simulation.running
    /\ simulation.ticks < MaxTicks
    /\ LET alpha == NextAlpha(simulation)
           forced == ApplyForces(nodes, simulation, alpha)
       IN  /\ nodes' = [i \in DOMAIN nodes |-> Integrate(Decay(forced[i]))]
           /\ simulation' = [simulation EXCEPT !.alpha = alpha,
                                               !.ticks = simulation.ticks + 1]
    /\ frame' = drawLinks(nodes', links, bidirectionalPairs)
    /\ UNCHANGED <<pc, data, container, canvas, links, bidirectionalPairs,
                   transform, errors, refit, drag, ui, wrap>>

\* The window's resize listener (line 49) after the container has taken
\* another size: resizeCanvas (lines 99-106).
WindowResize ==
    /\ pc = "ready"
    /\ \E size \in ContainerSizes :
          /\ size # container
          /\ container' = size
          /\ canvas' = size
    /\ frame' = draw(nodes)
    /\ UNCHANGED <<pc, data, nodes, links, bidirectionalPairs, transform,
                   errors, refit, drag, simulation, ui, wrap>>

\* Graphs with named relationships, loaded and then left to the timer and
\* to resizes.
InitForces ==
    /\ data \in RelationDocs
    /\ container = LargeContainer
    /\ Constructed

NextForces ==
    \/ Next
    \/ Tick
    \/ WindowResize

SpecForces == InitForces /\ [][NextForces]_vars

-----------------------------------------------------------------------------
(* Dragging and selecting nodes (lines 352-450, 676-735, 1220-1310).       *)

\* transformPointToSimulation (lines 370-375) of a pointer position.
transformPointToSimulation(point, t) ==
    <<RatDiv(RatSub(point[1], t.x), t.k), RatDiv(RatSub(point[2], t.y), t.k)>>

\* findNodeAtPoint (lines 377-387): the first node with a position whose
\* center is less than nodeRadius away, or NoNode.
findNodeAtPoint(ns, x, y) ==
    LET Hit(i) ==
            /\ ~IsNullish(ns[i].x) /\ ~IsNullish(ns[i].y)
            /\ IsNum(ns[i].x) /\ IsNum(ns[i].y)
            /\ LET dx == RatSub(x, Rat(ns[i].x.v, 1))
                   dy == RatSub(y, Rat(ns[i].y.v, 1))
               IN  RatLess(RatAdd(RatMul(dx, dx), RatMul(dy, dy)),
                           Rat(nodeRadius * nodeRadius, 1))
    IN  IF \E i \in DOMAIN ns : Hit(i)
        THEN CHOOSE i \in DOMAIN ns : Hit(i) /\ \A j \in DOMAIN ns : Hit(j) => i <= j
        ELSE NoNode

\* A simulation-space coordinate as a node coordinate; the pointer
\* positions used here give whole numbers.
ToNum(r) == IF r.t = "num" THEN Num(Div(r.n, r.d)) ELSE NaN

\* Where the pointer goes relative to a node: its center and a point
\* beside it.
PointerOffsets == {<<0, 0>>, <<-100, 0>>}

\* The pointer positions d3.pointer(event, this.canvas) reports.
Pointers ==
    {<<Apply(transform.k, transform.x, Rat(nodes[i].x.v + off[1], 1)),
       Apply(transform.k, transform.y, Rat(nodes[i].y.v + off[2], 1))>> :
        i \in {j \in DOMAIN nodes : IsNum(nodes[j].x) /\ IsNum(nodes[j].y)},
        off \in PointerOffsets}

\* The directions Math.cos(angle), Math.sin(angle) of line 702 may take.
Directions == {<<1, 0>>, <<0, 1>>, <<-1, 0>>, <<0, -1>>}

\* handleDragStart without the two assignments that pin the node.
StartDragUnpinned(subject, ns, u, sim) ==
    [nodes |-> ns,
     ui |-> [u EXCEPT !.infoBoxVisible = FALSE, !.draggedNode = subject,
                      !.dragging = TRUE,
                      !.originalCollideStrength = sim.collideStrength],
     simulation |-> [sim EXCEPT !.collideRadius = Div(nodeRadius * 16, 10),
                                !.collideStrength = 100,
                                !.alphaTarget = 10]]

\* What handleDragStart does to a subject (lines 392-412): the collide
\* force gets the radius 1.6 * nodeRadius and the strength 1, the node is
\* pinned where it is, and the alpha target becomes 0.1.
StartDrag(subject, ns, u, sim) ==
    [nodes |-> [ns EXCEPT ![subject].fx = ns[subject].x,
                          ![subject].fy = ns[subject].y],
     ui |-> [u EXCEPT !.infoBoxVisible = FALSE, !.draggedNode = subject,
                      !.dragging = TRUE,
                      !.originalCollideStrength = sim.collideStrength],
     simulation |-> [sim EXCEPT !.collideRadius = Div(nodeRadius * 16, 10),
                                !.collideStrength = 100,
                                !.alphaTarget = 10]]

\* handleDragStart without its first line: with no subject it runs until
\* the read of this.draggedNode.fx throws.
handleDragStartUnguarded(subject, ns, u, sim) ==
    IF subject = NoNode
    THEN [nodes |-> ns,
          ui |-> [u EXCEPT !.infoBoxVisible = FALSE, !.draggedNode = NoNode,
                           !.dragging = TRUE,
                           !.originalCollideStrength = sim.collideStrength],
          simulation |-> [sim EXCEPT !.collideRadius = Div(nodeRadius * 16, 10),
                                     !.collideStrength = 100]]
    ELSE StartDrag(subject, ns, u, sim)

\* handleDragStart (lines 389-413).
handleDragStart(subject, ns, u, sim) ==
    IF subject = NoNode
    THEN [nodes |-> ns, ui |-> u, simulation |-> sim]
    ELSE StartDrag(subject, ns, u, sim)

\* The shift of line 712, 713, 720 or 721 along one axis: direction times
\* overlap times the strength in hundredths, in whole pixels.
Push(dirNum, dirDen, overlap, strength) ==
    Div(dirNum * overlap * strength, dirDen * 100)

\* applyCollisionAvoidance (lines 676-735) with node d dragged; dir is the
\* random direction for a node on the very point of the dragged node.
applyCollisionAvoidance(ns, d, dir) ==
    [i \in DOMAIN ns |->
        LET n == ns[i]
            dx == n.x.v - ns[d].x.v
            dy == n.y.v - ns[d].y.v
            minDistance == nodeRadius * 3
            near == dx * dx + dy * dy < minDistance * minDistance
            distance == ISqrt(dx * dx + dy * dy)
            overlap == minDistance - distance
            dirX == IF distance > 0 THEN <<dx, distance>> ELSE <<dir[1], 1>>
            dirY == IF distance > 0 THEN <<dy, distance>> ELSE <<dir[2], 1>>
            isFixed == n.fx # NullV /\ n.fy # NullV
            x == n.x.v + Push(dirX[1], dirX[2], overlap, IF isFixed THEN 15 ELSE 30)
            y == n.y.v + Push(dirY[1], dirY[2], overlap, IF isFixed THEN 15 ELSE 30)
        IN  IF i = d \/ ~IsNum(n.x) \/ ~IsNum(n.y) THEN n
            ELSE IF ~near THEN n
            ELSE IF isFixed
                 THEN [n EXCEPT !.x = Num(x), !.y = Num(y),
                                !.fx = Num(x), !.fy = Num(y)]
                 ELSE [n EXCEPT
                         !.x = Num(x), !.y = Num(y),
                         !.vx = Num(OrZero(n.vx) + Push(dirX[1], dirX[2], overlap, 15)),
                         !.vy = Num(OrZero(n.vy) + Push(dirY[1], dirY[2], overlap, 15))]]

\* The 'start' event of a gesture at a pointer position: dragSubject
\* (lines 355-360) finds the subject and handleDragStart runs.
HandleDragStart ==
    /\ pc = "ready"
    /\ ~drag.active
    /\ drag.gestures < MaxGestures
    /\ \E p \in Pointers :
          LET simPoint == transformPointToSimulation(p, transform)
              subject == findNodeAtPoint(nodes, simPoint[1], simPoint[2])
              after == handleDragStart(subject, nodes, ui, simulation)
          IN  /\ nodes' = after.nodes
              /\ ui' = after.ui
              /\ simulation' = after.simulation
              /\ drag' = [drag EXCEPT !.active = TRUE, !.subject = subject,
                                      !.moved = FALSE,
                                      !.gestures = drag.gestures + 1]
    /\ UNCHANGED <<pc, data, container, canvas, links, bidirectionalPairs,
                   transform, errors, frame, refit, wrap>>

\* handleDrag (lines 415-431) for the dragged node d: the node and its pin
\* move to the pointer's simulation point, and the nodes near it are
\* pushed away.
handleDrag(ns, d, point, dir) ==
    applyCollisionAvoidance([ns EXCEPT ![d].x = ToNum(point[1]),
                                       ![d].y = ToNum(point[2]),
                                       ![d].fx = ToNum(point[1]),
                                       ![d].fy = ToNum(point[2])], d, dir)

\* The directions to follow for a move of d to point: all of them when
\* another node lies exactly there, and any one otherwise, as the random
\* angle is then not read.
DirectionsAt(ns, d, point) ==
    IF \E i \in DOMAIN ns :
          i # d /\ ns[i].x = ToNum(point[1]) /\ ns[i].y = ToNum(point[2])
    THEN Directions ELSE {<<1, 0>>}

\* A 'drag' event of the gesture.  One move of every gesture is followed.
HandleDrag ==
    /\ pc = "ready"
    /\ drag.active /\ ~drag.moved
    /\ drag' = [drag EXCEPT !.moved = TRUE]
    /\ IF ui.draggedNode = NoNode
       THEN UNCHANGED <<nodes, frame>>
       ELSE \E p \in Pointers :
               LET point == transformPointToSimulation(p, transform)
                   d == ui.draggedNode
               IN  /\ \E dir \in DirectionsAt(nodes, d, point) :
                         nodes' = handleDrag(nodes, d, point, dir)
                   /\ frame' = drawLinks(nodes', links, bidirectionalPairs)
    /\ UNCHANGED <<pc, data, container, canvas, links, bidirectionalPairs,
                   transform, errors, refit, simulation, ui, wrap>>

\* handleDragEnd (lines 433-450): with no dragged node it returns at once.
\* The collide force gets the radius 1.5 * nodeRadius and the saved
\* strength, or 0.8 for a saved 0; the alpha target returns to 0 and alpha
\* is 0.1.
handleDragEnd(u, sim) ==
    IF u.draggedNode = NoNode
    THEN [ui |-> u, simulation |-> sim]
    ELSE [ui |-> [u EXCEPT !.dragging = FALSE, !.draggedNode = NoNode],
          simulation |->
              [sim EXCEPT
                  !.collideRadius = Div(nodeRadius * 15, 10),
                  !.collideStrength =
                      IF u.originalCollideStrength \in {0, NoStrength}
                      THEN 80 ELSE u.originalCollideStrength,
                  !.alphaTarget = 0,
                  !.alpha = 100]]

\* The 'end' event of the gesture.
HandleDragEnd ==
    /\ pc = "ready"
    /\ drag.active
    /\ drag' = [drag EXCEPT !.active = FALSE]
    /\ ui' = handleDragEnd(ui, simulation).ui
    /\ simulation' = handleDragEnd(ui, simulation).simulation
    /\ UNCHANGED <<pc, data, container, canvas, nodes, links, bidirectionalPairs,
                   transform, errors, frame, refit, wrap>>

\* The place of the info box for a clicked node (lines 1257-1297): right
\* of the node, or left of it, and inside the canvas by at least 10.
InfoBoxPlace(n, t, w, h) ==
    LET nodeScreenX == Apply(t.k, t.x, Rat(n.x.v, 1))
        nodeScreenY == Apply(t.k, t.y, Rat(n.y.v, 1))
        radius == RatMul(Rat(nodeRadius, 1), t.k)
        boxWidth == Rat(300, 1)
        estimatedHeight == 15 * 2 + 5 * 24 + 36
        right == RatAdd(RatAdd(nodeScreenX, radius), Rat(10, 1))
        left == RatSub(RatSub(RatSub(nodeScreenX, boxWidth), radius), Rat(10, 1))
        sided == IF RatLess(Rat(w - 10, 1), RatAdd(right, boxWidth)) THEN left ELSE right
        boxX == IF RatLess(sided, Rat(10, 1)) THEN Rat(10, 1) ELSE sided
        top == RatSub(nodeScreenY, radius)
        below == IF RatLess(top, Rat(10, 1)) THEN Rat(10, 1) ELSE top
        boxY == IF RatLess(Rat(h - 10, 1), RatAdd(below, Rat(estimatedHeight, 1)))
                THEN Rat(Max2(10, h - estimatedHeight - 10), 1) ELSE below
    IN  <<boxX, boxY>>

\* The click handler where a click on empty canvas hides the info box and
\* keeps the selection.
handleClickKeepingSelection(clickedNode, ns, t, cv, u) ==
    IF u.dragging THEN u
    ELSE IF clickedNode # NoNode
    THEN LET place == InfoBoxPlace(ns[clickedNode], t, cv.width, cv.height)
         IN  [u EXCEPT !.selectedNode = clickedNode, !.infoBoxVisible = TRUE,
                       !.infoBoxX = place[1], !.infoBoxY = place[2]]
    ELSE [u EXCEPT !.infoBoxVisible = FALSE]

\* The click listener (lines 1246-1306): it returns at once while
\* dragging; a click on a node selects it and shows the info box at its
\* place, a click elsewhere deselects and hides it.
handleClick(clickedNode, ns, t, cv, u) ==
    IF u.dragging THEN u
    ELSE IF clickedNode # NoNode
    THEN LET place == InfoBoxPlace(ns[clickedNode], t, cv.width, cv.height)
         IN  [u EXCEPT !.selectedNode = clickedNode, !.infoBoxVisible = TRUE,
                       !.infoBoxX = place[1], !.infoBoxY = place[2]]
    ELSE [u EXCEPT !.selectedNode = NoNode, !.infoBoxVisible = FALSE]

\* A click event on the canvas; the handler ends with draw().
Click ==
    /\ pc = "ready"
    /\ ~drag.active
    /\ \E p \in Pointers :
          LET simPoint == transformPointToSimulation(p, transform)
              clickedNode == findNodeAtPoint(nodes, simPoint[1], simPoint[2])
          IN  ui' = handleClick(clickedNode, nodes, transform, canvas, ui)
    /\ frame' = IF ui.dragging THEN frame ELSE draw(nodes)
    /\ UNCHANGED <<pc, data, container, canvas, nodes, links, bidirectionalPairs,
                   transform, errors, refit, drag, simulation, wrap>>

\* A press and release of the pointer at one place: the browser delivers
\* the start and the end of a gesture with no move between them and then
\* the click, so handleDragStart, handleDragEnd and the click listener run
\* in this order for the same point.
Tap ==
    /\ pc = "ready"
    /\ ~drag.active
    /\ drag.gestures < MaxGestures
    /\ \E p \in Pointers :
          LET simPoint == transformPointToSimulation(p, transform)
              subject == findNodeAtPoint(nodes, simPoint[1], simPoint[2])
              started == handleDragStart(subject, nodes, ui, simulation)
              ended == handleDragEnd(started.ui, started.simulation)
          IN  /\ nodes' = started.nodes
              /\ simulation' = ended.simulation
              /\ ui' = handleClick(subject, started.nodes, transform, canvas,
                                   ended.ui)
              /\ drag' = [drag EXCEPT !.active = FALSE, !.subject = subject,
                                      !.moved = FALSE,
                                      !.gestures = drag.gestures + 1]
    /\ frame' = draw(nodes')
    /\ UNCHANGED <<pc, data, container, canvas, links, bidirectionalPairs,
                   transform, errors, refit, wrap>>

\* The lines drawInfoBox lists for a node (lines 1316-1334): the id, the
\* label, and one line for each property other than type.  The nodes of
\* the documents carry the property type alone.
InfoBoxLines(n) == 2

\* box.width of the constructor and box.height of drawInfoBox (line 1338):
\* padding * 2 + propertyLines.length * lineHeight + 36.
InfoBoxWidth == 300

InfoBoxHeight(n) == 15 * 2 + InfoBoxLines(n) * 24 + 36

\* The graph that is loaded and then dragged and clicked: two nodes and a
\* link.
DragDocs == {Document(NodesOf(2), <<InputEdge(1, 2)>>)}

InitDrag ==
    /\ data \in DragDocs
    /\ container = LargeContainer
    /\ Constructed

NextDrag ==
    \/ Next
    \/ HandleDragStart
    \/ HandleDrag
    \/ HandleDragEnd
    \/ Click

SpecDrag == InitDrag /\ [][NextDrag]_vars

\* The same with the presses and releases in place.
NextTap ==
    \/ NextDrag
    \/ Tap

SpecTap == InitDrag /\ [][NextTap]_vars

-----------------------------------------------------------------------------
(* The second revision's drag (setupDrag, lines 1668-1743) and the         *)
(* integrator's tick, on a loaded graph at rest.                           *)

\* Where the simulation has left the nodes.
RestPoints == {<<0, 0>>, <<100, 0>>, <<100, 100>>}

\* The view the user has zoomed and panned to.
ViewTransforms ==
    {zoomIdentity, [k |-> Rat(1, 2), x |-> Rat(10, 1), y |-> Rat(20, 1)]}

\* Pointer positions on the canvas.
PointerPoints ==
    {<<0, 0>>, <<5, 5>>, <<100, 0>>, <<100, 100>>, <<10, 20>>, <<60, 20>>, <<60, 70>>}

\* (c - t) / k for a canvas coordinate c, a translation t and a scale k;
\* the transforms used here give whole numbers.
Invert(c, t, k) ==
    LET r == RatMul(RatSub(Rat(c, 1), t), Rat(k.d, k.n)) IN r.n \div r.d

\* dragSubject (lines 1672-1688): the first node less than 20 away from
\* the pointer's simulation-space position, or NoNode.
dragSubject(ns, t, p) ==
    LET x == Invert(p[1], t.x, t.k)
        y == Invert(p[2], t.y, t.k)
        Hit(i) == LET dx == x - (IF IsNum(ns[i].x) THEN ns[i].x.v ELSE 0)
                      dy == y - (IF IsNum(ns[i].y) THEN ns[i].y.v ELSE 0)
                  IN  dx * dx + dy * dy < 400
    IN  IF \E i \in DOMAIN ns : Hit(i)
        THEN CHOOSE i \in DOMAIN ns : Hit(i) /\ \A j \in DOMAIN ns : Hit(j) => i <= j
        ELSE NoNode

\* A graph of two nodes and no link, loaded by the second revision
\* (lines 1414-1462) and come to rest: the nodes are free and do not move.
InitRev2 ==
    /\ pc = "ready"
    /\ data = Document(NodesOf(2), <<>>)
    /\ container = LargeContainer
    /\ canvas = LargeContainer
    /\ \E p1, p2 \in RestPoints :
          /\ p1 # p2
          /\ nodes = [i \in 1..2 |->
                        [MakeNode(data.nodes[i], data.colors) EXCEPT
                            !.x = Num((IF i = 1 THEN p1 ELSE p2)[1]),
                            !.y = Num((IF i = 1 THEN p1 ELSE p2)[2]),
                            !.vx = Num(0), !.vy = Num(0)]]
    /\ links = <<>>
    /\ bidirectionalPairs = NoPairs
    /\ transform \in ViewTransforms
    /\ errors = <<>>
    /\ frame = <<>>
    /\ refit = NoRefit
    /\ drag = NoDrag
    /\ simulation = NoSimulation
    /\ ui = NoInteraction
    /\ wrap = NoWrap

\* The 'start' handler (lines 1693-1705) of a gesture whose subject is a
\* node: the node is pinned where it is.  d3-drag keeps the offset between
\* the subject's x, y and the pointer for the events of the gesture.
DragStartRev2 ==
    /\ pc = "ready"
    /\ drag.draggedNode = NoNode
    /\ drag.gestures < MaxGestures
    /\ \E p \in PointerPoints :
          LET n == dragSubject(nodes, transform, p) IN
          /\ n # NoNode
          /\ nodes' = [nodes EXCEPT ![n].fx = nodes[n].x, ![n].fy = nodes[n].y]
          /\ drag' = [NoDrag EXCEPT
                         !.draggedNode = n,
                         !.dragStartPosition = p,
                         !.offset = <<nodes[n].x.v - p[1], nodes[n].y.v - p[2]>>,
                         !.gestures = drag.gestures + 1]
    /\ UNCHANGED <<simulation, ui, wrap, pc, data, container, canvas, links, bidirectionalPairs,
                   transform, errors, frame, refit>>

\* The 'drag' handler (lines 1706-1715): only fx and fy are written, from
\* event.x and event.y (the pointer plus the gesture's offset).
DragRev2 ==
    /\ pc = "ready"
    /\ drag.draggedNode # NoNode
    /\ \E p \in PointerPoints :
          LET fx == Invert(p[1] + drag.offset[1], transform.x, transform.k)
              fy == Invert(p[2] + drag.offset[2], transform.y, transform.k)
          IN  /\ nodes' = [nodes EXCEPT ![drag.draggedNode].fx = Num(fx),
                                        ![drag.draggedNode].fy = Num(fy)]
              /\ drag' = [drag EXCEPT !.moved = TRUE, !.pointer = <<fx, fy>>]
    /\ UNCHANGED <<simulation, ui, wrap, pc, data, container, canvas, links, bidirectionalPairs,
                   transform, errors, frame, refit>>

\* The 'end' handler (lines 1716-1740): the node is released.  The nodes
\* have no collapsed and no children field, so a click changes nothing.
DragEndRev2 ==
    /\ pc = "ready"
    /\ drag.draggedNode # NoNode
    /\ nodes' = [nodes EXCEPT ![drag.draggedNode].fx = NullV,
                              ![drag.draggedNode].fy = NullV]
    /\ drag' = [drag EXCEPT !.draggedNode = NoNode,
                            !.dragStartPosition = <<0, 0>>,
                            !.released = drag.draggedNode]
    /\ UNCHANGED <<simulation, ui, wrap, pc, data, container, canvas, links, bidirectionalPairs,
                   transform, errors, frame, refit>>

\* A tick of the simulation with no force acting: the integrator step on
\* every node, then draw() (line 1458), which writes no link label for a
\* graph without links.
TickRev2 ==
    /\ pc = "ready"
    /\ nodes' = [i \in DOMAIN nodes |-> Integrate(nodes[i])]
    /\ frame' = <<>>
    /\ drag' = [drag EXCEPT !.ticked = drag.released # NoNode]
    /\ UNCHANGED <<simulation, ui, wrap, pc, data, container, canvas, links, bidirectionalPairs,
                   transform, errors, refit>>

NextRev2 ==
    \/ DragStartRev2
    \/ DragRev2
    \/ DragEndRev2
    \/ TickRev2

SpecRev2 == InitRev2 /\ [][NextRev2]_vars

-----------------------------------------------------------------------------
(* wrapText (lines 532-549).  A text is a sequence of characters; its      *)
(* measured width is the sum of the widths of its characters.              *)

Characters == {"a", " "}

\* ctx.measureText(c).width of one character.
CharWidth(c) == IF c = " " THEN 3 ELSE 7

RECURSIVE Width(_)
Width(text) == IF text = <<>> THEN 0 ELSE CharWidth(Head(text)) + Width(Tail(text))

\* text.split(' '): the pieces between the spaces, empty pieces included.
RECURSIVE Split(_, _)
Split(text, word) ==
    IF text = <<>> THEN <<word>>
    ELSE IF Head(text) = " " THEN <<word>> \o Split(Tail(text), <<>>)
    ELSE Split(Tail(text), Append(word, Head(text)))

\* The loop of lines 537-547 from word i on, started at i = 1 with the
\* first word as the current line.
RECURSIVE WrapFrom(_, _, _, _, _)
WrapFrom(words, i, currentLine, lines, maxWidth) ==
    IF i > Len(words) THEN Append(lines, currentLine)
    ELSE LET longer == currentLine \o <<" ">> \o words[i]
         IN  IF Width(longer) < maxWidth
             THEN WrapFrom(words, i + 1, longer, lines, maxWidth)
             ELSE WrapFrom(words, i + 1, words[i], Append(lines, currentLine),
                           maxWidth)

\* The loop started one word too early: the first word is taken twice.
wrapTextFromFirstWord(text, maxWidth) ==
    LET words == Split(text, <<>>)
    IN  WrapFrom(words, 1, words[1], <<>>, maxWidth)

wrapText(text, maxWidth) ==
    LET words == Split(text, <<>>)
    IN  WrapFrom(words, 2, words[1], <<>>, maxWidth)

Texts == SeqsUpTo(Characters, MaxTextLen)

MaxWidths == {8, 18, 30}

InitWrap ==
    /\ data = Document(<<>>, <<>>) /\ container = LargeContainer
    /\ Constructed

\* wrapText(text, maxWidth) on a text and a width.
WrapText ==
    /\ wrap.step = "new"
    /\ \E text \in Texts, maxWidth \in MaxWidths :
          wrap' = [NoWrap EXCEPT !.step = "wrapped", !.text = text,
                                 !.maxWidth = maxWidth,
                                 !.lines = wrapText(text, maxWidth)]
    /\ UNCHANGED <<pc, data, container, canvas, nodes, links, bidirectionalPairs,
                   transform, errors, frame, refit, drag, simulation, ui>>

\* wrapText on one of the lines the first call returned.
WrapLine ==
    /\ wrap.step = "wrapped"
    /\ \E k \in DOMAIN wrap.lines :
          wrap' = [wrap EXCEPT !.step = "rewrapped", !.line = k,
                               !.again = wrapText(wrap.lines[k], wrap.maxWidth)]
    /\ UNCHANGED <<pc, data, container, canvas, nodes, links, bidirectionalPairs,
                   transform, errors, frame, refit, drag, simulation, ui>>

NextWrap ==
    \/ WrapText
    \/ WrapLine

SpecWrap == InitWrap /\ [][NextWrap]_vars

-----------------------------------------------------------------------------
(* Stages of init() and properties of the inputs and of the link list.     *)

\* processData has returned.
Processed == pc \notin {"new", "resized"}

\* organizeInitialPositions, and so computeNodeHierarchy, has returned.
Organized == pc \notin {"new", "resized", "processed"}

Malformed(d) == d.isNull \/ ~d.hasNodes \/ ~d.hasEdges

WellFormed(d) == ~Malformed(d) /\ d.hasColors

EdgeResolves(d, e) ==
    /\ \E i \in DOMAIN d.nodes : d.nodes[i].id = e.source_node_id
    /\ \E i \in DOMAIN d.nodes : d.nodes[i].id = e.target_node_id

AllEdgesResolve(d) == \A k \in DOMAIN d.edges : EdgeResolves(d, d.edges[k])

\* Both ends of link number k are nodes of the graph.
LinkResolved(k) == links[k].source # NoNode /\ links[k].target # NoNode

\* A.source == B.target && A.target == B.source, for the links a and b.
IsReverse(a, b) ==
    /\ LinkResolved(a) /\ LinkResolved(b)
    /\ nodes[links[a].source].id = nodes[links[b].target].id
    /\ nodes[links[a].target].id = nodes[links[b].source].id

\* Link c joins the same two nodes as link a, in either direction.
JoinsSameNodes(c, a) ==
    /\ LinkResolved(c) /\ LinkResolved(a)
    /\ {links[c].source, links[c].target} = {links[a].source, links[a].target}

\* The graphs whose input is well formed and names no missing node.
InitResolved == Init /\ WellFormed(data) /\ AllEdgesResolve(data)

SpecResolved == InitResolved /\ [][Next]_vars

-----------------------------------------------------------------------------
\* C1: once computeNodeHierarchy has run on a loaded graph (single node,
\* self-loops, cycles without a root, cycles the roots do not reach,
\* several components, edges to missing nodes), every node's level is
\* defined and is an integer >= 0.
C1_LevelsDefined ==
    Organized => \A i \in DOMAIN nodes : nodes[i].level \in Nat

\* A graph of an isolated root and a two-node cycle the root does not reach
\* has been analysed.
C1_Witness ==
    /\ pc = "organized"
    /\ \E r, a, b \in DOMAIN nodes :
          /\ r # a /\ r # b /\ a # b
          /\ nodes[r].parentCount = 0 /\ nodes[r].childCount = 0
          /\ \E k1, k2 \in DOMAIN links :
                /\ links[k1].source = a /\ links[k1].target = b
                /\ links[k2].source = b /\ links[k2].target = a
          /\ nodes[r].level = 0 /\ nodes[a].level \in Nat /\ nodes[b].level \in Nat

-----------------------------------------------------------------------------
-----------------------------------------------------------------------------
\* The number of times one draw pass wrote the label of link k.
LabelCount(f, k) == Cardinality({e \in DOMAIN f : f[e].label = k})

\* The drawLink call of link k drew the link as a forward edge.
DrawnForward(f, k) == \E e \in DOMAIN f : f[e].by = k /\ f[e].side = "forward"

\* The drawLink call of link k drew the reverse arrow and label of link p.
DrawnReverseBy(f, k, p) ==
    \E e \in DOMAIN f : f[e].by = k /\ f[e].label = p /\ f[e].side = "reverse"

\* The drawLink call of link k drew nothing.
DrewNothing(f, k) == \A e \in DOMAIN f : f[e].by # k

\* The two ends of link k are distinct nodes placed on distinct points.
BetweenDistinctPlacedNodes(k) ==
    /\ LinkResolved(k)
    /\ links[k].source # links[k].target
    /\ LinkDrawable(nodes, links[k])

\* C3 as stated: in the frame a draw pass leaves, for every pair {a, b} of
\* the lookup between two distinct placed nodes, exactly one of a and b is
\* drawn forward, the one whose source id is not greater than its target
\* id; its call also draws the partner's reverse arrow and label, the
\* partner's call draws nothing, and each of the two labels is in the
\* frame exactly once.
C3_Original ==
    (Organized /\ frame = draw(nodes)) =>
        \A a, b \in DOMAIN links :
            (/\ getBidirectionalPair(bidirectionalPairs, a) = b
             /\ BetweenDistinctPlacedNodes(a)
             /\ nodes[links[a].source].id <= nodes[links[a].target].id) =>
                /\ DrawnForward(frame, a) /\ DrawnReverseBy(frame, a, b)
                /\ DrewNothing(frame, b)
                /\ LabelCount(frame, a) = 1 /\ LabelCount(frame, b) = 1

-----------------------------------------------------------------------------
\* The first link after link i that is its reverse: the match at which the
\* scan of link i stops, or NoLink.
MatchOf(i) ==
    LET after == {j \in DOMAIN links : j > i /\ IsReverse(i, j)}
    IN  IF after = {} THEN NoLink ELSE CHOOSE j \in after : \A h \in after : j <= h

\* The partner link k is given by the first match of the scan that names
\* it, or NoLink when no match names it.
FirstPartner(k) ==
    LET naming == {i \in DOMAIN links :
                      MatchOf(i) # NoLink /\ (i = k \/ MatchOf(i) = k)}
    IN  IF naming = {} THEN NoLink
        ELSE LET i == CHOOSE m \in naming : \A h \in naming : m <= h
             IN  IF i = k THEN MatchOf(i) ELSE i

\* C4 as stated: the lookup gives every link the partner of the first
\* match of the scan (i, then j > i) that names the link; a later match
\* does not replace it.
C4_Original ==
    Processed =>
        \A k \in DOMAIN links :
            getBidirectionalPair(bidirectionalPairs, k) = FirstPartner(k)

-----------------------------------------------------------------------------
\* The document without the edges that name a missing node.
WithoutDanglingEdges(d) ==
    [d EXCEPT !.edges = SelectSeq(d.edges, LAMBDA e : EdgeResolves(d, e))]

\* C5 as stated: after processData on a well-formed document, no link has
\* a missing end, and the nodes, the links and the pairs are those
\* processData produces from the document without its dangling edges.
C5_Original ==
    (Processed /\ WellFormed(data)) =>
        LET r == processData(WithoutDanglingEdges(data), <<>>, <<>>, NoPairs, <<>>)
        IN  /\ \A k \in DOMAIN links : LinkResolved(k)
            /\ nodes = r.nodes
            /\ links = r.links
            /\ bidirectionalPairs = r.pairs

-----------------------------------------------------------------------------
\* C6: when the document is null or has no nodes or no edges, processData
\* reports the error and returns without an exception, the node list and
\* the link list stay empty, and no later step of the load throws or draws
\* anything.
C6_MalformedInputLoadsEmpty ==
    (Processed /\ Malformed(data)) =>
        /\ errors = <<"Invalid data format">>
        /\ nodes = <<>> /\ links = <<>>
        /\ frame = <<>>
        /\ pc # "crashed"

\* The load of a malformed document has run through its last step.
C6_Witness ==
    /\ pc = "ready" /\ Malformed(data)
    /\ errors = <<"Invalid data format">> /\ nodes = <<>> /\ links = <<>>

-----------------------------------------------------------------------------
\* C7: processData keeps every node of a well-formed document and gives it
\* the color its type is mapped to, or '#999999' when the type is not in
\* the color map; when no edge names a missing node, nothing is reported
\* and no step of the load throws.
C7_ColorOrFallback ==
    (Processed /\ WellFormed(data)) =>
        /\ Len(nodes) = Len(data.nodes)
        /\ \A i \in DOMAIN nodes :
              /\ nodes[i].id = data.nodes[i].id
              /\ nodes[i].type \in DOMAIN data.colors =>
                     nodes[i].color = data.colors[nodes[i].type]
              /\ nodes[i].type \notin DOMAIN data.colors =>
                     nodes[i].color = "#999999"
        /\ AllEdgesResolve(data) => (errors = <<>> /\ pc # "crashed")

\* A document with a node of a mapped type, a node of an unmapped type and
\* a node without a type has been loaded.
C7_Witness ==
    /\ pc = "ready" /\ WellFormed(data) /\ errors = <<>>
    /\ \E i, j, k \in DOMAIN nodes :
          /\ nodes[i].type = TypeX /\ nodes[i].color = "#ff0000"
          /\ nodes[j].type = TypeZ /\ nodes[j].color = "#999999"
          /\ nodes[k].type = NoType /\ nodes[k].color = "#999999"

-----------------------------------------------------------------------------
\* The two-node example: node 1 of type X, node 2 of type Y, one edge
\* 1 -> 2 named LIKES, colors X: #ff0000 and Y: #00ff00.
TwoNodeExample ==
    [isNull |-> FALSE, hasNodes |-> TRUE, hasEdges |-> TRUE, hasColors |-> TRUE,
     nodes |-> <<[id |-> 1, type |-> "X"], [id |-> 2, type |-> "Y"]>>,
     edges |-> <<[source_node_id |-> 1, target_node_id |-> 2,
                  relationship_name |-> "LIKES"]>>,
     colors |-> [X |-> "#ff0000", Y |-> "#00ff00"]]

\* C8: loading the two-node example gives two nodes, node 1 at level 0 and
\* colored #ff0000, node 2 at level 1 and colored #00ff00, and one edge
\* 1 -> 2 named LIKES that has no partner.
C8_TwoNodeExample ==
    (Organized /\ data = TwoNodeExample) =>
        /\ Len(nodes) = 2
        /\ nodes[1].id = 1 /\ nodes[1].level = 0 /\ nodes[1].color = "#ff0000"
        /\ nodes[2].id = 2 /\ nodes[2].level = 1 /\ nodes[2].color = "#00ff00"
        /\ Len(links) = 1
        /\ links[1] = [source |-> 1, target |-> 2, relationship |-> "LIKES"]
        /\ getBidirectionalPair(bidirectionalPairs, 1) = NoLink
        /\ errors = <<>> /\ pc # "crashed"

\* The two-node example has been loaded to the end.
C8_Witness ==
    /\ pc = "ready" /\ data = TwoNodeExample
    /\ Len(nodes) = 2 /\ nodes[1].level = 0 /\ nodes[2].level = 1

-----------------------------------------------------------------------------
\* fitViewToContent has run on a graph with a placed node.
Fitted ==
    /\ pc \in {"fitted", "simulating", "ready", "crashed"}
    /\ nodes # <<>>

\* C10 as stated: the scale fitViewToContent stores for a non-empty placed
\* graph lies between minZoom and maxZoom, whatever the canvas size.
C10_Original ==
    Fitted => (RatLeq(minZoom, transform.k) /\ RatLeq(transform.k, maxZoom))

-----------------------------------------------------------------------------
\* C9 as stated: after a drag on a node with at least one drag move, the
\* last to the simulation-space point (px, py), and the drag's end, the
\* node is at (px, py) once the integrator has ticked with no force acting.
C9_Original ==
    (drag.released # NoNode /\ drag.moved /\ drag.ticked) =>
        /\ nodes[drag.released].x = Num(drag.pointer[1])
        /\ nodes[drag.released].y = Num(drag.pointer[2])

\* C11 as stated: right after fitViewToContent on a non-empty graph, the
\* stored transform maps the center of the node bounding box (inflated by
\* 8 * nodeRadius) to the center of the canvas, and the image of the box
\* meets the viewport [0, width] x [0, height].
C11_Original ==
    (pc = "fitted" /\ nodes # <<>>) =>
        /\ transform.k.t = "num" /\ transform.x.t = "num" /\ transform.y.t = "num"
        /\ \A i \in DOMAIN nodes : IsNum(nodes[i].x) /\ IsNum(nodes[i].y)
        /\ LET xs == {nodes[i].x.v : i \in DOMAIN nodes}
               ys == {nodes[i].y.v : i \in DOMAIN nodes}
               minX == SetMin(xs) - 8 * nodeRadius
               maxX == SetMax(xs) + 8 * nodeRadius
               minY == SetMin(ys) - 8 * nodeRadius
               maxY == SetMax(ys) + 8 * nodeRadius
               left == Apply(transform.k, transform.x, Rat(minX, 1))
               right == Apply(transform.k, transform.x, Rat(maxX, 1))
               top == Apply(transform.k, transform.y, Rat(minY, 1))
               bottom == Apply(transform.k, transform.y, Rat(maxY, 1))
           IN  /\ Apply(transform.k, transform.x, Rat(minX + maxX, 2))
                      = Rat(canvas.width, 2)
               /\ Apply(transform.k, transform.y, Rat(minY + maxY, 2))
                      = Rat(canvas.height, 2)
               /\ RatLeq(left, Rat(canvas.width, 1)) /\ RatLeq(Rat(0, 1), right)
               /\ RatLeq(top, Rat(canvas.height, 1)) /\ RatLeq(Rat(0, 1), bottom)

-----------------------------------------------------------------------------
\* C12: wrapText applied to a line it returned, when the line measures
\* less than the maximum width, returns that one line unchanged.
C12_WrapIdempotent ==
    (wrap.step = "rewrapped"
        /\ Width(wrap.lines[wrap.line]) < wrap.maxWidth) =>
        wrap.again = <<wrap.lines[wrap.line]>>

\* A text was wrapped into several lines and a line of two words that
\* measures less than the maximum was wrapped again.
C12_Witness ==
    /\ wrap.step = "rewrapped"
    /\ Len(wrap.lines) >= 2
    /\ Len(Split(wrap.lines[wrap.line], <<>>)) >= 2
    /\ Width(wrap.lines[wrap.line]) < wrap.maxWidth
    /\ wrap.again = <<wrap.lines[wrap.line]>>

-----------------------------------------------------------------------------
-----------------------------------------------------------------------------
\* The names getLinkDistance treats as primary and as secondary.
PrimaryNames == {"ACTED_IN", "DIRECTED", "PART_OF"}

SecondaryNames == {"WORKED_WITH", "FREQUENT_COLLABORATOR"}

\* Two links whose ends have the same types and the same levels.
SameEnds(a, b) ==
    /\ nodes[a.source].type = nodes[b.source].type
    /\ nodes[a.target].type = nodes[b.target].type
    /\ LevelOrZero(nodes[a.source]) = LevelOrZero(nodes[b.source])
    /\ LevelOrZero(nodes[a.target]) = LevelOrZero(nodes[b.target])

\* C19: of two ingested links with the same types and levels at their
\* ends, one with a primary relationship name is 100 shorter, and one with
\* a secondary name 150 longer, than one with any other name.
C19_Original ==
    simulation.running =>
        \A k, m \in DOMAIN links :
            (SameEnds(links[k], links[m])
                /\ links[m].relationship \notin PrimaryNames \cup SecondaryNames) =>
                /\ links[k].relationship \in PrimaryNames =>
                      simulation.distances[k] = simulation.distances[m] - 100
                /\ links[k].relationship \in SecondaryNames =>
                      simulation.distances[k] = simulation.distances[m] + 150

-----------------------------------------------------------------------------
\* What the clustering force adds to node i on the next step, according
\* to the center of the node's bucket and the coefficients 0.2 and 0.4.
BucketPull(i) ==
    LET n == nodes[i]
        center == simulation.centers[<<LevelOrZero(n), GroupType(n)>>]
        alpha == NextAlpha(simulation)
    IN  <<Div((center[1] - n.x.v) * 2 * alpha, 10000),
          Div((center[2] - n.y.v) * 4 * alpha, 10000)>>

\* C15: on a step the clustering force adds to the velocity of every node
\* without a pinned position, a never dragged one included, the pull toward
\* the center of its bucket, 0.2 * alpha on x and 0.4 * alpha on y, and adds
\* nothing to a node a drag has pinned.
C15_Original ==
    (pc = "ready" /\ simulation.running) =>
        LET forced == typeClusterForce(nodes, simulation.centers,
                                       NextAlpha(simulation))
        IN  \A i \in DOMAIN nodes :
                IF IsNullish(nodes[i].fx) /\ IsNullish(nodes[i].fy)
                THEN /\ forced[i].vx = Num(OrZero(nodes[i].vx) + BucketPull(i)[1])
                     /\ forced[i].vy = Num(OrZero(nodes[i].vy) + BucketPull(i)[2])
                ELSE forced[i] = nodes[i]

-----------------------------------------------------------------------------
\* C16: the centers the clustering force uses are the centers of the
\* current canvas size, also after a resize.
C16_Original ==
    (pc = "ready" /\ simulation.running) =>
        simulation.centers = TypeClusterCenters(nodes, canvas.width, canvas.height)

-----------------------------------------------------------------------------
\* The nodes joined to node i by an input edge of the given name.
NamedNeighbours(i, name) ==
    {j \in DOMAIN nodes :
        \E k \in DOMAIN links :
            /\ links[k].relationship = name
            /\ \/ links[k].source = i /\ links[k].target = j
               \/ links[k].target = i /\ links[k].source = j}

\* The nodes reached from a set of nodes over input edges of one name.
RECURSIVE ReachedUnder(_, _)
ReachedUnder(S, name) ==
    LET more == UNION {NamedNeighbours(i, name) : i \in S} \ S
    IN  IF more = {} THEN S ELSE ReachedUnder(S \cup more, name)

\* C17: the primary relationship type of a node with edges is a name of
\* its input edges under which it has the most distinct neighbours, and two
\* nodes of one cluster are joined by a path of input edges of one name.
C17_Original ==
    simulation.running =>
        /\ \A i \in DOMAIN nodes :
              (\E name \in RelationNames : NamedNeighbours(i, name) # {}) =>
                  LET primaryRel == getPrimaryRelationship(links, i)
                  IN  /\ primaryRel \in RelationNames
                      /\ \A name \in RelationNames :
                            Cardinality(NamedNeighbours(i, name))
                                <= Cardinality(NamedNeighbours(i, primaryRel))
        /\ \A i, j \in DOMAIN nodes :
              (simulation.clusters[i] # 0
                  /\ simulation.clusters[i] = simulation.clusters[j]) =>
                  \E name \in RelationNames : j \in ReachedUnder({i}, name)

-----------------------------------------------------------------------------
\* C20: a resize of a graph with nodes leaves the transform that
\* fitViewToContent computes for the new canvas size and the positions.
C20_Original ==
    [][(pc = "ready" /\ canvas' # canvas /\ nodes # <<>>) =>
          transform' = FitTransform(nodes', canvas'.width, canvas'.height)]_vars

-----------------------------------------------------------------------------
\* C13: an event of a drag gesture without a subject (start, move or end)
\* changes no node, neither the dragging flag nor the dragged node, neither
\* the collide force nor the alpha target, and not the info box.
C13_NoSubjectNoOp ==
    [][(drag' # drag /\ drag'.subject = NoNode) =>
          /\ nodes' = nodes
          /\ ui' = ui
          /\ simulation' = simulation]_vars

\* A gesture without a subject has started, moved and ended while a node
\* was selected and its info box shown.
C13_Witness ==
    /\ pc = "ready"
    /\ drag.gestures >= 1 /\ drag.subject = NoNode
    /\ drag.moved /\ ~drag.active
    /\ ui.infoBoxVisible /\ ui.selectedNode # NoNode
    /\ ~ui.dragging /\ ui.draggedNode = NoNode

-----------------------------------------------------------------------------
\* The distance, truncated, between node i and the dragged node d.
DistanceTo(ns, i, d) ==
    ISqrt((ns[i].x.v - ns[d].x.v) * (ns[i].x.v - ns[d].x.v)
          + (ns[i].y.v - ns[d].y.v) * (ns[i].y.v - ns[d].y.v))

\* Node i is closer than 3 * nodeRadius to the dragged node d, and not on
\* its very point.
Crowds(ns, i, d) ==
    LET dx == ns[i].x.v - ns[d].x.v
        dy == ns[i].y.v - ns[d].y.v
    IN  /\ i # d
        /\ 0 < dx * dx + dy * dy
        /\ dx * dx + dy * dy < (3 * nodeRadius) * (3 * nodeRadius)

\* C14: on a drag move a crowding node that an earlier drag has pinned is
\* shifted by half the push and its fx, fy follow, and a crowding node that
\* was never pinned is shifted by the whole push, gains velocity, and has
\* no fx, fy afterwards.
C14_Original ==
    [][(drag'.moved /\ ~drag.moved /\ ui.draggedNode # NoNode) =>
          LET d == ui.draggedNode
              at == [nodes EXCEPT ![d].x = nodes'[d].x, ![d].y = nodes'[d].y]
          IN  \A i \in DOMAIN nodes :
                Crowds(at, i, d) =>
                  LET dx == at[i].x.v - at[d].x.v
                      dy == at[i].y.v - at[d].y.v
                      distance == DistanceTo(at, i, d)
                      overlap == 3 * nodeRadius - distance
                  IN  IF IsNum(nodes[i].fx) /\ IsNum(nodes[i].fy)
                      THEN /\ nodes'[i].x = Num(at[i].x.v + Push(dx, distance, overlap, 15))
                           /\ nodes'[i].y = Num(at[i].y.v + Push(dy, distance, overlap, 15))
                           /\ nodes'[i].fx = nodes'[i].x
                           /\ nodes'[i].fy = nodes'[i].y
                      ELSE /\ nodes'[i].x = Num(at[i].x.v + Push(dx, distance, overlap, 30))
                           /\ nodes'[i].y = Num(at[i].y.v + Push(dy, distance, overlap, 30))
                           /\ nodes'[i].vx = Num(OrZero(nodes[i].vx)
                                                 + Push(dx, distance, overlap, 15))
                           /\ nodes'[i].vy = Num(OrZero(nodes[i].vy)
                                                 + Push(dy, distance, overlap, 15))
                           /\ nodes'[i].fx = nodes[i].fx
                           /\ nodes'[i].fy = nodes[i].fy]_vars

-----------------------------------------------------------------------------
\* C23: after organizeInitialPositions every node has a finite numeric x
\* and y, also when the placement puts two nodes on one point.
C23_Original ==
    pc = "organized" =>
        \A i \in DOMAIN nodes : IsNum(nodes[i].x) /\ IsNum(nodes[i].y)

-----------------------------------------------------------------------------
\* The links into node i whose two ends are nodes.
ParentLinks(i) ==
    {k \in DOMAIN links : links[k].target = i /\ links[k].source # NoNode}

\* The root set as the claim describes it.
ClaimedRoots ==
    LET parentless == {i \in DOMAIN nodes : ParentLinks(i) = {}}
    IN  IF parentless # {} THEN parentless
        ELSE {i \in DOMAIN nodes :
                \A j \in DOMAIN nodes :
                    Cardinality(ParentLinks(i)) <= Cardinality(ParentLinks(j))}

\* The nodes at most k directed links away from the set S.
RECURSIVE WithinSteps(_, _)
WithinSteps(S, k) ==
    IF k = 0 THEN S
    ELSE LET near == WithinSteps(S, k - 1)
         IN  near \cup {links[m].target : m \in {n \in DOMAIN links :
                            links[n].source \in near /\ links[n].target # NoNode}}

\* computeNodeHierarchy has run and init() has not thrown.
Leveled == pc \in {"organized", "zoomSetup", "fitted", "simulating", "ready"}

\* C26: the roots, the nodes without a parent or else those with the
\* fewest parents, have level 0, and every node reachable from them has
\* the length of the shortest directed path from a root as its level.
C26_ShortestPathLevels ==
    Leveled =>
        \A i \in DOMAIN nodes :
            /\ i \in ClaimedRoots => nodes[i].level = 0
            /\ \A k \in 0..Len(nodes) :
                  (i \in WithinSteps(ClaimedRoots, k)
                      /\ (k > 0 => i \notin WithinSteps(ClaimedRoots, k - 1))) =>
                      nodes[i].level = k

\* A chain: a node two links away from the only root has level 2.
C26_Witness ==
    /\ pc = "organized"
    /\ Cardinality(ClaimedRoots) = 1
    /\ \E i \in DOMAIN nodes :
          /\ i \in WithinSteps(ClaimedRoots, 2)
          /\ i \notin WithinSteps(ClaimedRoots, 1)
          /\ nodes[i].level = 2

-----------------------------------------------------------------------------
\* The nodes the traversal from the roots reaches.
Reached == WithinSteps(ClaimedRoots, Len(nodes))

\* The neighbours of an unreached node i that have a level when i gets
\* its own: the reached ones and the unreached ones before i.
LeveledNeighbours(i) ==
    {j \in DOMAIN nodes :
        /\ j # i
        /\ j \in Reached \/ j < i
        /\ \E k \in DOMAIN links :
              \/ links[k].source = i /\ links[k].target = j
              \/ links[k].target = i /\ links[k].source = j}

RECURSIVE LevelSum(_)
LevelSum(S) ==
    IF S = {} THEN 0
    ELSE LET j == CHOOSE j \in S : TRUE IN nodes[j].level + LevelSum(S \ {j})

\* C27: a node the traversal does not reach has the level floor(average
\* level of its leveled neighbours) + 1, every neighbour counted once, or 0
\* without a leveled neighbour.
C27_Original ==
    Leveled =>
        \A i \in DOMAIN nodes \ Reached :
            nodes[i].level =
                IF LeveledNeighbours(i) = {} THEN 0
                ELSE (LevelSum(LeveledNeighbours(i))
                        \div Cardinality(LeveledNeighbours(i))) + 1


\* C28: once a drag gesture on a node has ended, the collide force has the
\* radius and the strength it had before the drag: the radius 2.5 *
\* nodeRadius and the strength 0.95 of setupSimulation.
C28_Original ==
    (pc = "ready" /\ simulation.running /\ ~ui.dragging) =>
        /\ simulation.collideRadius = Div(nodeRadius * 25, 10)
        /\ simulation.collideStrength = 95

TwoStates ==
    pc = "ready" =>
        /\ ui.dragging <=> ui.draggedNode # NoNode
        /\ ui.dragging <=> (drag.active /\ drag.subject # NoNode)
        /\ ui.dragging => simulation.alphaTarget = 10
        /\ ~ui.dragging => simulation.alphaTarget = 0

DragStartPins ==
    (~ui.dragging /\ ui'.dragging) =>
        LET d == ui'.draggedNode
        IN  /\ nodes'[d].fx = nodes[d].x /\ nodes'[d].fy = nodes[d].y
            /\ nodes'[d].x = nodes[d].x /\ nodes'[d].y = nodes[d].y
            /\ simulation'.alphaTarget = 10

DragEndReleases ==
    (ui.dragging /\ ~ui'.dragging) =>
        ui'.draggedNode = NoNode /\ simulation'.alphaTarget = 0

\* C29: the drag controller has two states.  The dragging flag is set
\* exactly when a dragged node is recorded, and exactly between the start
\* of a gesture on a node and the end of that gesture; the start pins the
\* node where it is and sets the alpha target to 0.1, and the end sets the
\* alpha target to 0.
C29_TwoStates == [][TwoStates' /\ DragStartPins /\ DragEndReleases]_vars

C29_Witness ==
    /\ pc = "ready" /\ ~ui.dragging /\ ~drag.active
    /\ drag.subject # NoNode /\ drag.moved /\ drag.gestures = MaxGestures
    /\ IsNum(nodes[drag.subject].fx)

\* ---------------------------------------------------------------------
\* Pan and zoom gestures of setupZoom next to the drag gestures, and the
\* delayed second fit of fitViewToContent.

\* The filter of the zoom behaviour (lines 554-569) for an event of the
\* given type: a wheel or touchmove event passes while no node is
\* dragged, a mousedown passes when no node is under the pointer, and
\* every other event passes.
zoomFilter(type, dragging, nodeUnderMouse) ==
    IF type \in {"wheel", "touchmove"} THEN ~dragging
    ELSE IF type = "mousedown" THEN nodeUnderMouse = NoNode
    ELSE TRUE

\* The events that start a gesture of a pointer.
PointerKinds == {"mousedown", "touchstart"}

\* The pixels a followed pointer move pans the view by.
Pans == {<<10, 0>>, <<0, -10>>}

\* The factors a followed wheel event scales the view by.
WheelFactors == {Rat(2, 1), Rat(1, 2)}

\* scaleExtent([minZoom, maxZoom]) of line 553.
ScaleExtent(k) ==
    IF RatLess(k, minZoom) THEN minZoom
    ELSE IF RatLess(maxZoom, k) THEN maxZoom ELSE k

\* A mousedown or touchstart on the canvas.  The zoom behaviour, set up
\* first, passes the event to its filter and starts a pan when it is
\* accepted; the drag behaviour looks up its subject and runs
\* handleDragStart.
PointerDown ==
    /\ pc = "ready"
    /\ ~drag.active
    /\ drag.gestures < MaxGestures
    /\ \E kind \in PointerKinds, p \in Pointers :
          LET simPoint == transformPointToSimulation(p, transform)
              subject == findNodeAtPoint(nodes, simPoint[1], simPoint[2])
              started == handleDragStart(subject, nodes, ui, simulation)
          IN  /\ nodes' = started.nodes
              /\ ui' = started.ui
              /\ simulation' = started.simulation
              /\ drag' = [drag EXCEPT
                             !.active = TRUE, !.subject = subject,
                             !.moved = FALSE,
                             !.gestures = drag.gestures + 1,
                             !.panning = zoomFilter(kind, ui.dragging, subject)]
    /\ UNCHANGED <<pc, data, container, canvas, links, bidirectionalPairs,
                   transform, errors, frame, refit, wrap>>

\* A move of the pressed pointer.  A started pan translates the view and
\* the 'zoom' listener (lines 571-574) stores it and draws; a dragged node
\* follows the pointer through handleDrag.
PointerMove ==
    /\ pc = "ready"
    /\ drag.active /\ ~drag.moved
    /\ drag' = [drag EXCEPT !.moved = TRUE,
                             !.zoomed = drag.zoomed \/ drag.panning]
    /\ \E by \in IF drag.panning THEN Pans ELSE {<<0, 0>>} :
          transform' = [transform EXCEPT
                           !.x = RatAdd(transform.x, Rat(by[1], 1)),
                           !.y = RatAdd(transform.y, Rat(by[2], 1))]
    /\ IF ui.draggedNode = NoNode
       THEN nodes' = nodes
       ELSE \E p \in Pointers :
               LET point == transformPointToSimulation(p, transform')
                   d == ui.draggedNode
               IN  \E dir \in DirectionsAt(nodes, d, point) :
                      nodes' = handleDrag(nodes, d, point, dir)
    /\ frame' = IF drag.panning \/ ui.draggedNode # NoNode
                THEN drawLinks(nodes', links, bidirectionalPairs) ELSE frame
    /\ UNCHANGED <<pc, data, container, canvas, links, bidirectionalPairs,
                   errors, refit, simulation, ui, wrap>>

\* The release of the pointer ends the pan and runs handleDragEnd.
PointerUp ==
    /\ pc = "ready"
    /\ drag.active
    /\ drag' = [drag EXCEPT !.active = FALSE, !.panning = FALSE]
    /\ ui' = handleDragEnd(ui, simulation).ui
    /\ simulation' = handleDragEnd(ui, simulation).simulation
    /\ UNCHANGED <<pc, data, container, canvas, nodes, links, bidirectionalPairs,
                   transform, errors, frame, refit, wrap>>

\* A wheel event with the pointer at the canvas origin: when the filter
\* accepts it the view is scaled within the scale extent, and the 'zoom'
\* listener stores it and draws.
Wheel ==
    /\ pc = "ready"
    /\ drag.gestures < MaxGestures
    /\ \E f \in WheelFactors :
          LET k == ScaleExtent(RatMul(transform.k, f))
              by == RatDiv(k, transform.k)
          IN  IF zoomFilter("wheel", ui.dragging, NoNode)
              THEN /\ transform' = [k |-> k, x |-> RatMul(transform.x, by),
                                    y |-> RatMul(transform.y, by)]
                   /\ frame' = draw(nodes)
                   /\ drag' = [drag EXCEPT !.gestures = drag.gestures + 1,
                                           !.zoomed = TRUE]
              ELSE /\ drag' = [drag EXCEPT !.gestures = drag.gestures + 1]
                   /\ UNCHANGED <<transform, frame>>
    /\ UNCHANGED <<pc, data, container, canvas, nodes, links, bidirectionalPairs,
                   errors, refit, simulation, ui, wrap>>

\* The callback of the setTimeout of fitViewToContent (lines 648-656),
\* half a second after the fit: it stores the transform of the fit again
\* and draws.
RefitTimer ==
    /\ pc = "ready"
    /\ refit.pending
    /\ transform' = refit.transform
    /\ refit' = [refit EXCEPT !.pending = FALSE]
    /\ frame' = draw(nodes)
    /\ UNCHANGED <<pc, data, container, canvas, nodes, links, bidirectionalPairs,
                   errors, drag, simulation, ui, wrap>>

InitView ==
    /\ data \in DragDocs
    /\ container = LargeContainer
    /\ Constructed

NextView ==
    \/ Next
    \/ PointerDown
    \/ PointerMove
    \/ PointerUp
    \/ Wheel
    \/ RefitTimer

SpecView == InitView /\ [][NextView]_vars

\* The graph is loaded into a container of any of the sizes, and is then
\* clicked while the window is resized.
InitSelect ==
    /\ data \in DragDocs
    /\ container \in ContainerSizes
    /\ Constructed

NextSelect ==
    \/ Next
    \/ Click
    \/ WindowResize

SpecSelect == InitSelect /\ [][NextSelect]_vars

\* A press and release at one place, with the click it produces, is one
\* step: a gesture is counted and none is open before or after.
TapStep ==
    /\ pc = "ready" /\ ~drag.active /\ ~drag'.active
    /\ drag'.gestures = drag.gestures + 1

\* C21: a press on a node and a release with no pointer movement between
\* them is a click: it toggles the selection of that node, selecting it if
\* it was not selected and deselecting it if it was, and the node's x, y,
\* fx and fy are what they were before the press.
C21_Original ==
    [][(TapStep /\ drag'.subject # NoNode) =>
          LET n == drag'.subject
          IN  /\ ui'.selectedNode = IF ui.selectedNode = n THEN NoNode ELSE n
              /\ nodes'[n].x = nodes[n].x /\ nodes'[n].y = nodes[n].y
              /\ nodes'[n].fx = nodes[n].fx /\ nodes'[n].fy = nodes[n].fy]_vars

\* A click with no gesture: no gesture is open or counted by the step.
ClickStep ==
    /\ pc = "ready" /\ ~drag.active /\ ~drag'.active
    /\ drag'.gestures = drag.gestures

\* C24: over every sequence of clicks and drag events at most one node is
\* selected and the info box is visible only while a node is selected; a
\* click on empty canvas leaves no node selected and the box hidden, and a
\* click on a node leaves that node selected and the box visible.
C24_Selection ==
    [][/\ pc' = "ready" =>
              /\ ui'.selectedNode \in {NoNode} \cup DOMAIN nodes'
              /\ ui'.infoBoxVisible => ui'.selectedNode # NoNode
       /\ (TapStep /\ drag'.subject = NoNode) =>
              ui'.selectedNode = NoNode /\ ~ui'.infoBoxVisible
       /\ (TapStep /\ drag'.subject # NoNode) =>
              ui'.selectedNode = drag'.subject /\ ui'.infoBoxVisible
       /\ ClickStep =>
              (ui'.infoBoxVisible <=> ui'.selectedNode # NoNode)]_vars

C24_Witness ==
    /\ pc = "ready" /\ ~drag.active /\ drag.gestures = MaxGestures
    /\ drag.subject = NoNode
    /\ ui.selectedNode = NoNode /\ ~ui.infoBoxVisible
    /\ \E i \in DOMAIN nodes : IsNum(nodes[i].fx)

\* C22: whenever the info box is drawn, its rectangle, with the width 300
\* and the height of the selected node's lines, lies inside the canvas.
C22_Original ==
    (pc = "ready" /\ ui.selectedNode # NoNode /\ ui.infoBoxVisible) =>
        /\ RatLeq(Rat(0, 1), ui.infoBoxX)
        /\ RatLeq(RatAdd(ui.infoBoxX, Rat(InfoBoxWidth, 1)), Rat(canvas.width, 1))
        /\ RatLeq(Rat(0, 1), ui.infoBoxY)
        /\ RatLeq(RatAdd(ui.infoBoxY,
                         Rat(InfoBoxHeight(nodes[ui.selectedNode]), 1)),
                  Rat(canvas.height, 1))

\* C25: a pointer-down on a node, of the mouse or of a touch, starts no
\* pan, so that the view transform does not change while the node is
\* dragged; a pointer-down on empty canvas starts a pan and no node drag.
C25_Original ==
    [][/\ (pc = "ready" /\ ~drag.active /\ drag'.active) =>
              IF drag'.subject # NoNode
              THEN ~drag'.panning /\ ui'.draggedNode = drag'.subject
              ELSE drag'.panning /\ ui'.draggedNode = NoNode
       /\ (pc = "ready" /\ ui.dragging) => transform' = transform]_vars

\* C30: once a gesture of the user has set the view transform, only a
\* gesture of the user changes it: a step that changes it afterwards is
\* not the step of the delayed second fit.
C30_Original ==
    [][(pc = "ready" /\ drag.zoomed /\ transform' # transform) =>
          refit' = refit]_vars
=============================================================================
